---------------------------- MODULE Spec2Model ----------------------------
(***************************************************************************)
(* State-machine model of the Instagram scraper service: the              *)
(* InstagramScraper of scraper.py (request routing, request/profile       *)
(* cache, strategy pipeline) together with the proxy manager it consumes  *)
(* and the Flask routes of app.py that drive it.                          *)
(*                                                                         *)
(* Python dicts are records whose DOMAIN is the dict's key set, Python    *)
(* None is the string "None" (what an f-string formats it to), and every  *)
(* handler is one action.  Each action leaves in `last` the observable    *)
(* trace of the step that ran: a handler's arguments, its result, and one *)
(* record per call of _make_request_with_proxy.  Operators take the       *)
(* values they branch on as parameters, so each is computed once.         *)
(***************************************************************************)
EXTENDS Integers, Sequences, FiniteSets, TLC

VARIABLES
    cache,          \* scraper.cache: TTLCache, entries in insertion order
    request_count,  \* scraper.request_count
    user_ips,       \* proxy_manager.user_ips: registered client IPs
    proxies,        \* proxy_manager.proxies: pool proxies, in order of arrival
    perf,           \* per-candidate performance statistics
    now,            \* wall clock, seconds
    sends,          \* history: outbound requests sent so far
    returned,       \* history: per profile key, the last freshly scraped result
    last            \* trace of the handler that ran last

vars == <<cache, request_count, user_ips, proxies, perf, now, sends, returned, last>>

-----------------------------------------------------------------------------
(* Bounds of the model *)

MaxSends == 2
MaxTime == 300
TickStep == 150
MaxCountLen == 4
MaxEdges == 11
RateLimit == 2
RateWindow == 2
MaxClock == 4
MaxCommands == 4

(* Program constants *)

CacheMaxSize == 100
CacheTTL == 300
PenaltyLatency == 10
LatencyCeiling == 10
EdgeLimit == 10
RecentLimit == 5
CaptionLimit == 200

None == "None"

Usernames == {"instagram"}
ClientIPs == {"1.2.3.4"}
ProxySource == << [ip |-> "10.0.0.1", port |-> "8080"],
                 [ip |-> "10.0.0.2", port |-> "3128"] >>
PoolIPs == { ProxySource[i].ip : i \in 1..Len(ProxySource) }
AllIPs == ClientIPs \cup PoolIPs

-----------------------------------------------------------------------------
(* cachetools.TTLCache(maxsize, ttl), as scraper.cache uses it *)

\* the entries that have not expired at time t (TTLCache.expire)
CacheExpire(c, t) == SelectSeq(c, LAMBDA e : t < e.expires)

\* key in cache
CacheContains(c, k, t) == \E i \in 1..Len(c) : c[i].key = k /\ t < c[i].expires

\* cache[key], for a key the cache contains
CacheGet(c, k) == LET i == CHOOSE i \in 1..Len(c) : c[i].key = k IN c[i].value

\* cache[key] = value: expired entries are dropped, a full cache evicts its
\* oldest entry, the entry is (re)inserted last with a fresh expiry
CacheSet(c, k, v, t) ==
    LET live == CacheExpire(c, t)
        known == \E i \in 1..Len(live) : live[i].key = k
        rest == IF known THEN SelectSeq(live, LAMBDA e : e.key # k)
                ELSE IF Len(live) >= CacheMaxSize THEN Tail(live)
                ELSE live
    IN  Append(rest, [key |-> k, value |-> v, expires |-> t + CacheTTL])

-----------------------------------------------------------------------------
(* proxy_manager: the collaborator scraper.py and app.py import *)

NoStats == [succ |-> 0, fail |-> 0, lat |-> 0]

\* score = success_rate - latency / latency_ceiling, with
\* success_rate = succ / (succ + fail + 1); a beats b iff Score(a) > Score(b),
\* compared over the common denominator
ScoreNum(s) == s.succ * LatencyCeiling - s.lat * (s.succ + s.fail + 1)
ScoreDen(s) == (s.succ + s.fail + 1) * LatencyCeiling
ScoreLess(a, b) == ScoreNum(a) * ScoreDen(b) < ScoreNum(b) * ScoreDen(a)

\* get_user_ip_proxy(ip): the registered candidate's ip, or None
RegisteredIPs(uips) == { uips[i].ip : i \in 1..Len(uips) }

get_user_ip_proxy(uips, ip) == IF ip \in RegisteredIPs(uips) THEN ip ELSE None

NoProxy == [ip |-> None, port |-> None]

\* get_best_proxy(): the best-scoring pool candidate, the most recently
\* added among equals; none on an empty pool
get_best_proxy(pool, pf) ==
    IF Len(pool) = 0 THEN NoProxy
    ELSE LET best == CHOOSE i \in 1..Len(pool) :
                        \A j \in 1..Len(pool) :
                            \/ ScoreLess(pf[pool[j].ip], pf[pool[i].ip])
                            \/ (~ScoreLess(pf[pool[i].ip], pf[pool[j].ip]) /\ j <= i)
         IN  pool[best]

\* variant: every call adds an entry
add_user_ip_Appends(uips, ip, t) == Append(uips, [ip |-> ip, last_seen |-> t])

\* add_user_ip(ip, user_agent): upsert; a known ip's entry has its last-seen
\* time updated, a new ip gets an entry
add_user_ip(uips, ip, t) ==
    IF ip \in RegisteredIPs(uips)
    THEN [i \in 1..Len(uips) |->
            IF uips[i].ip = ip THEN [uips[i] EXCEPT !.last_seen = t] ELSE uips[i]]
    ELSE Append(uips, [ip |-> ip, last_seen |-> t])

\* update_proxy_performance(ip, success, latency): one outcome against the
\* matching candidate; a no-op for an unknown ip
update_proxy_performance(pf, known, ip, success, latency) ==
    IF ip \notin known THEN pf
    ELSE [pf EXCEPT ![ip] = [succ |-> IF success THEN @.succ + 1 ELSE @.succ,
                             fail |-> IF success THEN @.fail ELSE @.fail + 1,
                             lat |-> latency]]

-----------------------------------------------------------------------------
(* InstagramScraper: endpoints, headers, transport outcomes *)

\* endpoints['profile'].format(username)
ProfileUrl(u) == "https://www.instagram.com/" \o u \o "/"

\* endpoints['profile_json'].format(username)
ProfileJsonUrl(u) == "https://www.instagram.com/api/v1/users/web_profile_info/?username=" \o u

RequestKey(url, client_ip) == "request:" \o url \o ":" \o client_ip

ProfileKey(username, client_ip) == "profile:" \o username \o ":" \o client_ip

\* Python truthiness of an optional string
Truthy(x) == x # None /\ x # ""

\* `x or y`
OrElse(x, y) == IF Truthy(x) THEN x ELSE y

\* _get_headers: the fixed base headers (left out here) plus User-Agent;
\* self.ua.random, used when no user agent is given, may raise
RandomAgent == "ua.random"

get_headers(user_agent) == [h \in {"User-Agent"} |-> OrElse(user_agent, RandomAgent)]

get_headers_raises(user_agent, ua_fails) == ~Truthy(user_agent) /\ ua_fails

NoHeaders == [h \in {} |-> ""]

\* lines 116-149: the headers= argument of session.get, on every route the
\* dict _get_headers built
SentHeaders(user_agent) == get_headers(user_agent)

\* lines 140-141: on route user_ip the local dict gets the forwarding
\* headers once session.get has returned
HeadersAfterSend(proxy_type, client_ip, user_agent) ==
    IF proxy_type = "user_ip"
    THEN [h \in {"X-Forwarded-For", "X-Real-IP"} |-> client_ip] @@ get_headers(user_agent)
    ELSE get_headers(user_agent)

\* What the page body holds, as far as the scraper looks at it:
\*   private  - 'This Account is Private' / 'account is private' occurs
\*   notavail - "Sorry, this page isn't available" occurs
\*   json     - the embedded / API JSON: "none" (no JSON found, or the body is
\*              not JSON), "user" (a user object with a username), "nouser"
\*              (JSON without a user object), "baduser" (a user object whose
\*              fields have an unexpected shape, so that parsing it raises)
\*   followers - edge_followed_by.count of the user object
\*   text_followers - the count the page text shows before "Followers"
Body(private, notavail, json, followers, text_followers) ==
    [private |-> private, notavail |-> notavail, json |-> json,
     followers |-> followers, text_followers |-> text_followers]

EmptyBody == Body(FALSE, FALSE, "none", 0, 0)

HtmlBodies ==
    { Body(TRUE, FALSE, "user", 500, 0), Body(FALSE, TRUE, "user", 500, 0),
      Body(FALSE, FALSE, "nouser", 0, 0), Body(FALSE, FALSE, "baduser", 0, 0),
      Body(FALSE, FALSE, "none", 0, 1200), Body(FALSE, FALSE, "user", 500, 0),
      Body(FALSE, FALSE, "user", 500000000, 0) }

PlainPage == Body(FALSE, FALSE, "none", 0, 1200)

ApiBodies ==
    { Body(FALSE, FALSE, "none", 0, 0), Body(FALSE, FALSE, "nouser", 0, 0),
      Body(FALSE, FALSE, "user", 700, 0) }

\* What session.get does: a response, or one of the exceptions
Response(status, body, latency) ==
    [kind |-> "response", status |-> status, body |-> body, latency |-> latency]

Failure(kind) == [kind |-> kind, status |-> 0, body |-> EmptyBody, latency |-> 0]

Failures == { Failure(k) : k \in {"timeout", "connection_error", "other_error"} }

\* latency is the measured response time, in seconds
Outcomes(bodies) ==
    { Response(200, b, 1) : b \in bodies } \cup { Response(404, EmptyBody, 2) }
    \cup Failures

\* the requests.Response the caller gets, or NoResponse for Python's None
NoResponse == [status_code |-> 0, text |-> EmptyBody]

-----------------------------------------------------------------------------
(* InstagramScraper._make_request_with_proxy *)

\* the machine state a handler reads and writes
State == [cache |-> cache, request_count |-> request_count, perf |-> perf,
          user_ips |-> user_ips, proxies |-> proxies, now |-> now]

\* known candidates of the proxy manager
KnownIPs(st) == RegisteredIPs(st.user_ips) \cup { st.proxies[i].ip : i \in 1..Len(st.proxies) }

\* variant: the hit test looks the entry up under the url alone
RequestCacheHit_UrlKey(st, url, client_ip, use_cache) ==
    use_cache /\ CacheContains(st.cache, url, st.now)

\* line 75: the request-cache hit test
RequestCacheHit(st, url, client_ip, use_cache) ==
    use_cache /\ CacheContains(st.cache, RequestKey(url, client_ip), st.now)

ProxyAddress(p) == "http://" \o p.ip \o ":" \o p.port

PoolRoute(best_proxy, lookups) ==
    IF best_proxy # NoProxy
    THEN [proxy_type |-> "pool_proxy", proxy |-> ProxyAddress(best_proxy),
          proxy_ip |-> best_proxy.ip, lookups |-> lookups]
    ELSE [proxy_type |-> "direct", proxy |-> None, proxy_ip |-> None,
          lookups |-> lookups]

\* variant: the pool is asked first, the client's own IP only on an empty pool
SelectRoute_PoolFirst(st, client_ip) ==
    IF get_best_proxy(st.proxies, st.perf) # NoProxy
    THEN PoolRoute(get_best_proxy(st.proxies, st.perf), <<"get_best_proxy">>)
    ELSE IF Truthy(client_ip) /\ get_user_ip_proxy(st.user_ips, client_ip) # None
    THEN [proxy_type |-> "user_ip",
          proxy |-> "http://" \o get_user_ip_proxy(st.user_ips, client_ip),
          proxy_ip |-> client_ip, lookups |-> <<"get_best_proxy", "get_user_ip_proxy">>]
    ELSE PoolRoute(NoProxy, <<"get_best_proxy", "get_user_ip_proxy">>)

\* variant: a client IP the manager does not know goes direct, the pool unasked
SelectRoute_NoFallback(st, client_ip) ==
    IF Truthy(client_ip)
    THEN IF get_user_ip_proxy(st.user_ips, client_ip) # None
         THEN [proxy_type |-> "user_ip",
               proxy |-> "http://" \o get_user_ip_proxy(st.user_ips, client_ip),
               proxy_ip |-> client_ip, lookups |-> <<"get_user_ip_proxy">>]
         ELSE PoolRoute(NoProxy, <<"get_user_ip_proxy">>)
    ELSE PoolRoute(get_best_proxy(st.proxies, st.perf), <<"get_best_proxy">>)

\* lines 79-111: the route, the proxies mapping and the lookups made for it
SelectRoute(st, client_ip) ==
    IF Truthy(client_ip)
    THEN IF get_user_ip_proxy(st.user_ips, client_ip) # None
         THEN [proxy_type |-> "user_ip",
               proxy |-> "http://" \o get_user_ip_proxy(st.user_ips, client_ip),
               proxy_ip |-> client_ip, lookups |-> <<"get_user_ip_proxy">>]
         ELSE PoolRoute(get_best_proxy(st.proxies, st.perf),
                        <<"get_user_ip_proxy", "get_best_proxy">>)
    ELSE PoolRoute(get_best_proxy(st.proxies, st.perf), <<"get_best_proxy">>)

\* lines 121-149: the proxies= argument of session.get
ProxiesArg(route) ==
    IF route.proxy # None /\ route.proxy_type # "user_ip" THEN route.proxy ELSE None

\* lines 155, 169, 174, 179: the route reports performance
ReportsPerformance(route) ==
    route.proxy_type \in {"user_ip", "pool_proxy"} /\ route.proxy # None

\* variant: every response counts as a success, whatever its status
PerfAfterResponse_AnyStatus(route, outcome) ==
    IF ReportsPerformance(route)
    THEN << [ip |-> route.proxy_ip, success |-> TRUE, latency |-> outcome.latency] >>
    ELSE << >>

\* lines 151-158: feedback after a response
PerfAfterResponse(route, outcome) ==
    IF ReportsPerformance(route)
    THEN << [ip |-> route.proxy_ip, success |-> (outcome.status = 200),
             latency |-> outcome.latency] >>
    ELSE << >>

\* variant: a failed send is reported with no latency penalty
PerfAfterFailure_NoPenalty(route) ==
    IF ReportsPerformance(route)
    THEN << [ip |-> route.proxy_ip, success |-> FALSE, latency |-> 0] >>
    ELSE << >>

\* lines 167-181: feedback after an exception
PerfAfterFailure(route) ==
    IF ReportsPerformance(route)
    THEN << [ip |-> route.proxy_ip, success |-> FALSE, latency |-> PenaltyLatency] >>
    ELSE << >>

\* variant: every response enters the request cache, whatever its status
ShouldCache_AnyStatus(outcome, use_cache) == use_cache

\* line 161: which responses enter the request cache
ShouldCache(outcome, use_cache) == outcome.status = 200 /\ use_cache

ApplyPerf(st, calls) ==
    IF Len(calls) = 0 THEN st.perf
    ELSE update_proxy_performance(st.perf, KnownIPs(st), calls[1].ip, calls[1].success,
                                  calls[1].latency)

NoRoute == [proxy_type |-> "none", proxy |-> None, proxy_ip |-> None, lookups |-> << >>]

\* What the call was asked and what it found: the arguments, the live cache
\* entry under its key, and what the proxy manager then had to offer
Asked(st, url, client_ip, use_cache) ==
    [url |-> url, client_ip |-> client_ip, use_cache |-> use_cache,
     cached_before |-> IF CacheContains(st.cache, RequestKey(url, client_ip), st.now)
                       THEN <<CacheGet(st.cache, RequestKey(url, client_ip))>>
                       ELSE << >>,
     ip_known |-> client_ip \in RegisteredIPs(st.user_ips),
     best_ip |-> get_best_proxy(st.proxies, st.perf).ip,
     count_before |-> st.request_count]

\* What the call did: the route taken, the send and what went out, the
\* feedback recorded, the cache insert, the counter, the value returned
Did(route, slept, sent, outcome, perf_calls, stored, st1, raised, response, headers) ==
    [lookups |-> route.lookups, proxy_type |-> route.proxy_type, headers |-> headers,
     proxy_ip |-> route.proxy_ip, slept |-> slept, sent |-> sent,
     proxies |-> IF sent THEN ProxiesArg(route) ELSE None,
     outcome |-> outcome.kind, latency |-> outcome.latency,
     perf |-> perf_calls, stored |-> stored,
     count_after |-> st1.request_count, raised |-> raised, response |-> response]

Returned(st1, response, raised, asked, did) ==
    [st |-> st1, response |-> response, raised |-> raised, trace |-> asked @@ did]

\* lines 75-77: the cached response, and nothing else
ServeCached(st, asked) ==
    Returned(st, asked.cached_before[1], FALSE, asked,
             Did(NoRoute, FALSE, FALSE, Failure("none"), << >>, FALSE, st, FALSE,
                 asked.cached_before[1], NoHeaders))

\* lines 151-165: a response came back
Respond(st, key, asked, route, outcome, use_cache, response, calls, st1, headers) ==
    Returned(st1, response, FALSE, asked,
             Did(route, TRUE, TRUE, outcome, calls, ShouldCache(outcome, use_cache),
                 st1, FALSE, response, headers))

AfterResponse(st, key, outcome, use_cache, response, calls) ==
    [st EXCEPT !.request_count = @ + 1,
               !.perf = ApplyPerf(st, calls),
               !.cache = IF ShouldCache(outcome, use_cache)
                         THEN CacheSet(@, key, response, st.now) ELSE @]

\* lines 167-183: session.get raised
Fail(st, asked, route, outcome, calls, headers) ==
    Returned([st EXCEPT !.perf = ApplyPerf(st, calls)], NoResponse, FALSE, asked,
             Did(route, TRUE, TRUE, outcome, calls, FALSE, st, FALSE, NoResponse,
                 headers))

\* lines 113-183, the route chosen
SendOn(st, url, client_ip, user_agent, ua_fails, use_cache, outcome, asked, route) ==
    IF get_headers_raises(user_agent, ua_fails)
    THEN Returned(st, NoResponse, TRUE, asked,
                  Did(route, TRUE, FALSE, Failure("none"), << >>, FALSE, st, TRUE,
                      NoResponse, NoHeaders))
    ELSE IF outcome.kind = "response"
    THEN Respond(st, RequestKey(url, client_ip), asked, route, outcome, use_cache,
                 [status_code |-> outcome.status, text |-> outcome.body],
                 PerfAfterResponse(route, outcome),
                 AfterResponse(st, RequestKey(url, client_ip), outcome, use_cache,
                               [status_code |-> outcome.status, text |-> outcome.body],
                               PerfAfterResponse(route, outcome)),
                 SentHeaders(user_agent))
    ELSE Fail(st, asked, route, outcome, PerfAfterFailure(route), SentHeaders(user_agent))

\* Returns [st: the state after the call, response, raised, trace]
make_request_with_proxy(st, url, client_ip, user_agent, ua_fails, use_cache, outcome) ==
    IF RequestCacheHit(st, url, client_ip, use_cache)
    THEN ServeCached(st, Asked(st, url, client_ip, use_cache))
    ELSE SendOn(st, url, client_ip, user_agent, ua_fails, use_cache, outcome,
                Asked(st, url, client_ip, use_cache), SelectRoute(st, client_ip))

-----------------------------------------------------------------------------
(* InstagramScraper: parsers *)

Err(kind) == [error |-> kind]

NoPosts == [recent |-> << >>, total |-> 0]

Statistics(followers) == [followers |-> followers, following |-> 0, posts |-> 0]

\* variant: followers is read from the count the page text shows
parse_html_response_TextCount(body, username) ==
    CASE body.json = "user" ->
            [profile |-> [identity |-> [username |-> username, full_name |-> "",
                                        biography |-> "", external_url |-> "",
                                        is_private |-> FALSE, is_verified |-> FALSE,
                                        profile_pic_url |-> ""],
                          statistics |-> Statistics(body.text_followers)],
             posts |-> NoPosts]
      [] body.json = "baduser" -> Err("PARSING_ERROR")
      [] OTHER -> Err("USER_DATA_NOT_FOUND")

\* _parse_html_response: the user object of the embedded JSON, normalised;
\* its own try/except turns a parse exception into PARSING_ERROR
parse_html_response(body, username) ==
    CASE body.json = "user" ->
            [profile |-> [identity |-> [username |-> username, full_name |-> "",
                                        biography |-> "", external_url |-> "",
                                        is_private |-> FALSE, is_verified |-> FALSE,
                                        profile_pic_url |-> ""],
                          statistics |-> Statistics(body.followers)],
             posts |-> NoPosts]
      [] body.json = "baduser" -> Err("PARSING_ERROR")
      [] OTHER -> Err("USER_DATA_NOT_FOUND")

\* _parse_html_directly: meta tags and counts read off the page text
parse_html_directly(body, username) ==
    [profile |-> [identity |-> [username |-> username, full_name |-> "",
                                biography |-> "", profile_pic_url |-> "",
                                is_private |-> body.private, is_verified |-> FALSE],
                  statistics |-> Statistics(body.text_followers)]]

\* _parse_api_response
parse_api_response(body) ==
    [profile |-> [identity |-> [username |-> "", full_name |-> "",
                                biography |-> "", external_url |-> "",
                                is_private |-> FALSE, is_verified |-> FALSE,
                                profile_pic_url |-> ""],
                  statistics |-> Statistics(body.followers)],
     posts |-> NoPosts]

\* _count_data_points: every dict key and list element of the result
count_data_points(result) ==
    Cardinality(DOMAIN result) + Cardinality(DOMAIN result.profile)
    + Cardinality(DOMAIN result.profile.identity)
    + Cardinality(DOMAIN result.profile.statistics)
    + (IF "posts" \in DOMAIN result
       THEN Cardinality(DOMAIN result.posts) + Len(result.posts.recent) ELSE 0)

-----------------------------------------------------------------------------
(* InstagramScraper._extract_posts *)

\* A timeline edge: its node (or an empty one), the node's id, its
\* __typename as a sequence of words, and the texts of its caption edges.
\* A text is a sequence of characters.
Edge(has_node, id, typename, captions) ==
    [has_node |-> has_node, id |-> id, typename |-> typename, captions |-> captions]

\* seq[:n]
Prefix(seq, n) == SubSeq(seq, 1, IF Len(seq) < n THEN Len(seq) ELSE n)

HasWord(typename, word) == \E i \in 1..Len(typename) : typename[i] = word

\* _get_post_type, lines 488-497
get_post_type(typename) ==
    IF HasWord(typename, "Image") THEN "IMAGE"
    ELSE IF HasWord(typename, "Video") THEN "VIDEO"
    ELSE IF HasWord(typename, "Sidecar") THEN "CAROUSEL"
    ELSE "UNKNOWN"

\* _extract_caption, lines 478-486: the first caption edge's text, cut
extract_caption(captions) ==
    IF Len(captions) = 0 THEN << >> ELSE Prefix(captions[1], CaptionLimit)

\* lines 462-473 (likes, comments, timestamp and the urls are left out)
Post(edge) ==
    [id |-> edge.id, caption |-> extract_caption(edge.captions),
     type |-> get_post_type(edge.typename)]

PostsOf(edges) ==
    [i \in 1..Len(edges) |-> Post(edges[i])]

\* variant: every edge is read
extract_posts_AllEdges(edges) ==
    PostsOf(SelectSeq(edges, LAMBDA e : e.has_node))

\* _extract_posts, lines 452-476: the first ten edges, those without a node
\* skipped
extract_posts(edges) ==
    PostsOf(SelectSeq(Prefix(edges, EdgeLimit), LAMBDA e : e.has_node))

\* lines 377-380 and 446-449: the posts of the result
PostsPayload(posts) == [recent |-> Prefix(posts, RecentLimit), total |-> Len(posts)]

-----------------------------------------------------------------------------
(* InstagramScraper._parse_html_response: the search for the user object *)

\* A JSON value is tagged with its Python type: a dict (a function of its
\* string keys), a list (a sequence), a str (a sequence of words) or None
JDict(fields) == [t |-> "dict", v |-> fields]
JList(items) == [t |-> "list", v |-> items]
JStr(words) == [t |-> "str", v |-> words]
JNone == [t |-> "none", v |-> << >>]

\* lines 331-335; "#0" is the integer 0, which no key of a dict read from
\* JSON equals
Paths ==
    << <<"entry_data", "ProfilePage", "#0", "graphql", "user">>,
       <<"graphql", "user">>, <<"user">> >>

\* lines 340-344: one key of a path
Child(current, key) ==
    IF current.t = "dict" /\ key \in DOMAIN current.v THEN current.v[key] ELSE JNone

\* lines 338-344
RECURSIVE Walk(_, _)
Walk(current, path) ==
    IF Len(path) = 0 \/ current.t = "none" THEN current
    ELSE Walk(Child(current, Head(path)), Tail(path))

\* line 345: `current and 'username' in current`
IsUserObject(current) ==
    CASE current.t = "dict" -> "username" \in DOMAIN current.v
      [] current.t = "str" -> HasWord(current.v, "username")
      [] current.t = "list" ->
            \E i \in 1..Len(current.v) :
                current.v[i].t = "str" /\ current.v[i].v = <<"username">>
      [] OTHER -> FALSE

\* lines 337-347: the paths that yield a user object, in order
Resolving(json_data) ==
    SelectSeq(Paths, LAMBDA path : IsUserObject(Walk(json_data, path)))

\* lines 349-385: USER_DATA_NOT_FOUND without a user object; user.get on
\* anything but a dict raises, which line 383 turns into PARSING_ERROR
ParseUser(json_data, found) ==
    IF Len(found) = 0 THEN Err("USER_DATA_NOT_FOUND")
    ELSE IF Walk(json_data, found[1]).t # "dict" THEN Err("PARSING_ERROR")
    ELSE [profile |-> [identity |->
                        [username |-> Walk(json_data, found[1]).v.username]],
          path |-> found[1]]

parse_json_data(json_data) == ParseUser(json_data, Resolving(json_data))

-----------------------------------------------------------------------------
(* InstagramScraper._parse_count_string *)

\* A str is a sequence of one-character strings.  A Python int is kept as
\* its binary digits, least significant first and without leading zeros,
\* so that no count outgrows the checker's integers; a Python float is
\* [m, e]: a mantissa of 53 binary digits and an exponent, worth m * 2^e.

Digits == <<"0", "1", "2", "3", "4", "5", "6", "7", "8", "9">>

IsDigit(ch) == \E d \in 1..10 : Digits[d] = ch

DigitVal(ch) == (CHOOSE d \in 1..10 : Digits[d] = ch) - 1

MantissaBits == 53

\* without leading zeros
Trim(b) ==
    IF \A i \in 1..Len(b) : b[i] = 0 THEN << >>
    ELSE SubSeq(b, 1, CHOOSE i \in 1..Len(b) :
                          b[i] = 1 /\ \A j \in (i + 1)..Len(b) : b[j] = 0)

\* a small n, below 2^31
NatToBits(n) == Trim([j \in 1..31 |-> (n \div 2^(j - 1)) % 2])

RECURSIVE Pow10(_)
Pow10(k) == IF k = 0 THEN 1 ELSE 10 * Pow10(k - 1)

\* Products and quotients are worked out on groups of LimbBits binary
\* digits (limbs), so that each step stays a small number.
LimbBits == 12

LimbBase == 2^LimbBits

BitAt(b, j) == IF j <= Len(b) THEN b[j] ELSE 0

RECURSIVE LimbFrom(_, _, _)
LimbFrom(b, j, n) ==
    IF n = 0 THEN 0 ELSE BitAt(b, j) + 2 * LimbFrom(b, j + 1, n - 1)

ToLimbs(b) ==
    [i \in 1..((Len(b) + LimbBits - 1) \div LimbBits) |->
        LimbFrom(b, LimbBits * (i - 1) + 1, LimbBits)]

FromLimbs(l) ==
    Trim([j \in 1..(LimbBits * Len(l)) |->
            (l[(j - 1) \div LimbBits + 1] \div 2^((j - 1) % LimbBits)) % 2])

\* l * m + carry on limbs, for m up to LimbBase
RECURSIVE MulLimbs(_, _, _)
MulLimbs(l, m, carry) ==
    IF l = << >> THEN (IF carry = 0 THEN << >> ELSE <<carry>>)
    ELSE <<(Head(l) * m + carry) % LimbBase>>
         \o MulLimbs(Tail(l), m, (Head(l) * m + carry) \div LimbBase)

\* b * m, for m = 1000 or m = 1000000
MulSmall(b, m) ==
    IF m > LimbBase
    THEN FromLimbs(MulLimbs(MulLimbs(ToLimbs(b), m \div 1000, 0), 1000, 0))
    ELSE FromLimbs(MulLimbs(ToLimbs(b), m, 0))

\* long division of the limbs l[1..i] below the remainder rem by a small d
RECURSIVE DivLimbs(_, _, _, _, _)
DivLimbs(l, i, d, rem, q) ==
    IF i = 0 THEN [q |-> FromLimbs(q), r |-> rem]
    ELSE DivLimbs(l, i - 1, d, (rem * LimbBase + l[i]) % d,
                  <<(rem * LimbBase + l[i]) \div d>> \o q)

DivSmall(b, d) == DivLimbs(ToLimbs(b), Len(ToLimbs(b)), d, 0, << >>)

Zeros(n) == [i \in 1..n |-> 0]

ShiftLeft(b, n) == IF b = << >> THEN b ELSE Zeros(n) \o b

ShiftRight(b, n) == IF n >= Len(b) THEN << >> ELSE SubSeq(b, n + 1, Len(b))

\* b + 1: the digits below the lowest 0 become 0, that 0 becomes 1
LowestZero(b) ==
    IF \A i \in 1..Len(b) : b[i] = 1 THEN Len(b) + 1
    ELSE CHOOSE i \in 1..Len(b) : b[i] = 0 /\ \A j \in 1..(i - 1) : b[j] = 1

Inc(b) == Zeros(LowestZero(b) - 1) \o <<1>> \o ShiftRight(b, LowestZero(b))

\* the mantissa kept when the low s digits of b are dropped: round to
\* nearest, ties to even; sticky says digits were lost below b already
RoundedShift(b, s, sticky) ==
    IF s = 0 THEN b
    ELSE IF b[s] = 1 /\ (sticky \/ b[s + 1] = 1 \/ \E i \in 1..(s - 1) : b[i] = 1)
    THEN Inc(ShiftRight(b, s))
    ELSE ShiftRight(b, s)

\* rounding may carry into a 54th digit, which is then a 1 above zeros
Normalised(m, e) ==
    IF Len(m) > MantissaBits THEN [m |-> Tail(m), e |-> e + 1] ELSE [m |-> m, e |-> e]

ExcessBits(b) == IF Len(b) > MantissaBits THEN Len(b) - MantissaBits ELSE 0

RoundTo53(b, e, sticky) ==
    Normalised(RoundedShift(b, ExcessBits(b), sticky), e + ExcessBits(b))

FloatZero == [m |-> << >>, e |-> 0]

\* float() of the decimal n / 10^k: the nearest double.  The quotient is
\* taken with 64 digits more than the divisor has, its remainder sticky.
QuotientShift(k) == 64 + Len(NatToBits(Pow10(k)))

FloatOfQuotient(d, shift) == RoundTo53(d.q, 0 - shift, d.r # 0)

FloatOfDecimal(n, k) ==
    IF n = 0 THEN FloatZero
    ELSE FloatOfQuotient(DivSmall(ShiftLeft(NatToBits(n), QuotientShift(k)), Pow10(k)),
                         QuotientShift(k))

\* num * 1000, num * 1000000: the exact product, rounded to a double
FloatTimes(f, mult) ==
    IF f.m = << >> THEN FloatZero ELSE RoundTo53(MulSmall(f.m, mult), f.e, FALSE)

\* int(float): truncation
IntOfFloat(f) == IF f.e >= 0 THEN ShiftLeft(f.m, f.e) ELSE ShiftRight(f.m, 0 - f.e)

\* str.replace(ch, '')
Remove(str, ch) == SelectSeq(str, LAMBDA c : c # ch)

UpperChar(ch) == CASE ch = "k" -> "K" [] ch = "m" -> "M" [] ch = "x" -> "X" [] OTHER -> ch

\* str.upper()
Upper(str) == [i \in 1..Len(str) |-> UpperChar(str[i])]

Contains(str, ch) == \E i \in 1..Len(str) : str[i] = ch

AllDigits(str) == \A i \in 1..Len(str) : IsDigit(str[i])

RECURSIVE DigitsValue(_, _)
DigitsValue(str, acc) ==
    IF str = << >> THEN acc ELSE DigitsValue(Tail(str), 10 * acc + DigitVal(Head(str)))

PointAt(str) == CHOOSE i \in 1..Len(str) : str[i] = "."

IntPart(str) == IF Contains(str, ".") THEN SubSeq(str, 1, PointAt(str) - 1) ELSE str

FracPart(str) ==
    IF Contains(str, ".") THEN SubSeq(str, PointAt(str) + 1, Len(str)) ELSE << >>

\* float(str) accepts digits with at most one point and a digit on one side
\* of it; anything else over these characters raises ValueError
FloatParses(str) ==
    /\ AllDigits(IntPart(str)) /\ AllDigits(FracPart(str))
    /\ Len(IntPart(str)) + Len(FracPart(str)) > 0

float(str) == FloatOfDecimal(DigitsValue(IntPart(str) \o FracPart(str), 0),
                             Len(FracPart(str)))

\* int(str) accepts a non-empty run of digits; anything else raises
IntParses(str) == Len(str) > 0 /\ AllDigits(str)

\* lines 512-518, on the cleaned string; an exception ends in line 520
ParseCleanCount(count_str) ==
    IF Contains(count_str, "K")
    THEN IF FloatParses(Remove(count_str, "K"))
         THEN IntOfFloat(FloatTimes(float(Remove(count_str, "K")), 1000))
         ELSE << >>
    ELSE IF Contains(count_str, "M")
    THEN IF FloatParses(Remove(count_str, "M"))
         THEN IntOfFloat(FloatTimes(float(Remove(count_str, "M")), 1000000))
         ELSE << >>
    ELSE IF IntParses(count_str) THEN NatToBits(DigitsValue(count_str, 0))
    ELSE << >>

\* _parse_count_string: line 509 cleans the string
parse_count_string(count_str) == ParseCleanCount(Upper(Remove(count_str, ",")))

-----------------------------------------------------------------------------
(* InstagramScraper: the two methods of scrape_profile *)

\* A method's outcome: the state after it, its result (a dict), the requests
\* it made and the strategies it attempted, in order: "html_json" (fetch the
\* page, parse its embedded JSON), "html_direct" (the heuristic parse of the
\* page), "api" (fetch and parse the JSON endpoint).  Both methods catch
\* every exception themselves, so neither raises.
MethodResult(st, result, reqs, attempted) ==
    [st |-> st, result |-> result, reqs |-> reqs, attempted |-> attempted]

\* What the page yields: the result, the strategies attempted and the steps
\* taken on the body, in order
Yield(result, attempted, steps) ==
    [result |-> result, attempted |-> attempted, steps |-> steps]

\* variant: the embedded JSON is looked for before the marker strings
ClassifyHtml_JsonFirst(response, username) ==
    IF response = NoResponse \/ response.status_code # 200
    THEN Yield(Err("REQUEST_FAILED"), <<"html_json">>, << >>)
    ELSE IF response.text.json # "none"
    THEN Yield(parse_html_response(response.text, username), <<"html_json">>,
               <<"extract_json", "parse_html_response">>)
    ELSE IF response.text.private
    THEN Yield(Err("PRIVATE_PROFILE"), <<"html_json">>, <<"extract_json", "private">>)
    ELSE IF response.text.notavail
    THEN Yield(Err("PROFILE_NOT_FOUND"), <<"html_json">>,
               <<"extract_json", "private", "not_available">>)
    ELSE Yield(parse_html_directly(response.text, username),
               <<"html_json", "html_direct">>,
               <<"extract_json", "private", "not_available", "parse_html_directly">>)

\* _scrape_via_html, lines 239-259: what the fetched page yields
ClassifyHtml(response, username) ==
    IF response = NoResponse \/ response.status_code # 200
    THEN Yield(Err("REQUEST_FAILED"), <<"html_json">>, << >>)
    ELSE IF response.text.private
    THEN Yield(Err("PRIVATE_PROFILE"), <<"html_json">>, <<"private">>)
    ELSE IF response.text.notavail
    THEN Yield(Err("PROFILE_NOT_FOUND"), <<"html_json">>, <<"private", "not_available">>)
    ELSE IF response.text.json # "none"
    THEN Yield(parse_html_response(response.text, username), <<"html_json">>,
               <<"private", "not_available", "extract_json", "parse_html_response">>)
    ELSE Yield(parse_html_directly(response.text, username),
               <<"html_json", "html_direct">>,
               <<"private", "not_available", "extract_json", "parse_html_directly">>)

HtmlMethod(r, c) ==
    IF r.raised
    THEN MethodResult(r.st, Err("HTML_PARSING_FAILED"), <<r.trace>>, <<"html_json">>)
    ELSE MethodResult(r.st, c.result, <<r.trace>>, c.attempted)

HtmlFrom(r, username) == HtmlMethod(r, ClassifyHtml(r.response, username))

scrape_via_html(st, username, client_ip, user_agent, ua_fails, outcome) ==
    HtmlFrom(make_request_with_proxy(st, ProfileUrl(username), client_ip, user_agent,
                                     ua_fails, FALSE, outcome), username)

\* _scrape_via_api, lines 283-295: what the fetched JSON yields
ClassifyApi(response) ==
    IF response # NoResponse /\ response.status_code = 200
    THEN CASE response.text.json = "none" -> Err("API_FAILED")
           [] response.text.json = "nouser" -> Err("USER_NOT_FOUND")
           [] response.text.json = "baduser" -> Err("API_FAILED")
           [] OTHER -> parse_api_response(response.text)
    ELSE Err("API_FAILED")

ApiFrom(r) == MethodResult(r.st, ClassifyApi(r.response), <<r.trace>>, <<"api">>)

scrape_via_api(st, username, client_ip, user_agent, ua_fails, outcome) ==
    IF get_headers_raises(user_agent, ua_fails)
    THEN MethodResult(st, Err("API_FAILED"), << >>, <<"api">>)
    ELSE ApiFrom(make_request_with_proxy(st, ProfileJsonUrl(username), client_ip,
                                         user_agent, ua_fails, TRUE, outcome))

-----------------------------------------------------------------------------
(* InstagramScraper.scrape_profile *)

\* the cached dict is the object handed out: a change to it shows in the cache
CacheReplaceValue(c, k, v) ==
    [i \in 1..Len(c) |-> IF c[i].key = k THEN [c[i] EXCEPT !.value = v] ELSE c[i]]

\* line 191: the profile-cache hit test
ProfileCacheHit(st, username, client_ip) ==
    CacheContains(st.cache, ProfileKey(username, client_ip), st.now)

\* lines 192-194
CachedResult(st, username, client_ip) ==
    [CacheGet(st.cache, ProfileKey(username, client_ip))
        EXCEPT !.cached = TRUE, !.used_ip = OrElse(client_ip, "direct")]

\* line 213: the time the requests took, in ms
ExtractionTime(reqs) ==
    IF Len(reqs) = 0 THEN 0
    ELSE 1000 * (reqs[1].latency + (IF Len(reqs) > 1 THEN reqs[2].latency ELSE 0))

Timed(result, reqs) == [extraction_time |-> ExtractionTime(reqs)] @@ result

Counted(timed) == [data_points |-> count_data_points(timed)] @@ timed

\* lines 213-217: what a successful method's result is completed with
CompleteResult(result, client_ip, reqs) ==
    [cached |-> FALSE, used_ip |-> OrElse(client_ip, "pool_proxy")]
    @@ Counted(Timed(result, reqs))

\* variant: the exhaustion result carries no error key
ScrapingFailed_NoErrorKey(client_ip) ==
    [message |-> "All scraping methods failed", used_ip |-> OrElse(client_ip, "direct")]

\* lines 227-231
ScrapingFailed(client_ip) ==
    [error |-> "SCRAPING_FAILED", message |-> "All scraping methods failed",
     used_ip |-> OrElse(client_ip, "direct")]

\* variant: the result is stored under the username alone
StoreProfile_UsernameKey(st, username, client_ip, result) ==
    [st EXCEPT !.cache = CacheSet(@, "profile:" \o username, result, st.now)]

\* line 220: the result enters the profile cache
StoreProfile(st, username, client_ip, result) ==
    [st EXCEPT !.cache = CacheSet(@, ProfileKey(username, client_ip), result, st.now)]

\* line 212: `result and 'error' not in result`
Succeeded(result) == "error" \notin DOMAIN result

Winner(attempted) == attempted[Len(attempted)]

\* The call's outcome: the state after it, the result, and the call's trace:
\* the requests made, the strategies attempted, where the profile came from
Out(st, result, reqs, attempted, winner, hit) ==
    [st |-> st, result |-> result, reqs |-> reqs, attempted |-> attempted,
     winner |-> winner, hit |-> hit]

ServeProfile(st, username, client_ip, cached_data) ==
    Out([st EXCEPT !.cache = CacheReplaceValue(@, ProfileKey(username, client_ip),
                                               cached_data)],
        cached_data, << >>, << >>, "cache", TRUE)

Success(st, username, client_ip, result, reqs, attempted) ==
    Out(StoreProfile(st, username, client_ip, result), result, reqs, attempted,
        Winner(attempted), FALSE)

\* variant: the exhaustion result enters the profile cache as well
AfterApi_CachesFailure(username, client_ip, h, a) ==
    IF Succeeded(a.result)
    THEN Success(a.st, username, client_ip,
                 CompleteResult(a.result, client_ip, h.reqs \o a.reqs),
                 h.reqs \o a.reqs, h.attempted \o a.attempted)
    ELSE Out(StoreProfile(a.st, username, client_ip, ScrapingFailed(client_ip)),
             ScrapingFailed(client_ip), h.reqs \o a.reqs,
             h.attempted \o a.attempted, "none", FALSE)

\* lines 209-231, second method
AfterApi(username, client_ip, h, a) ==
    IF Succeeded(a.result)
    THEN Success(a.st, username, client_ip,
                 CompleteResult(a.result, client_ip, h.reqs \o a.reqs),
                 h.reqs \o a.reqs, h.attempted \o a.attempted)
    ELSE Out(a.st, ScrapingFailed(client_ip), h.reqs \o a.reqs,
             h.attempted \o a.attempted, "none", FALSE)

\* variant: the heuristic's profile is held back until the API has failed
AfterHtml_HeuristicLast(username, client_ip, user_agent, ua_fails, api_outcome, h) ==
    IF Succeeded(h.result) /\ h.attempted = <<"html_json">>
    THEN Success(h.st, username, client_ip,
                 CompleteResult(h.result, client_ip, h.reqs), h.reqs, h.attempted)
    ELSE IF ~Succeeded(h.result)
    THEN AfterApi(username, client_ip, h,
                  scrape_via_api(h.st, username, client_ip, user_agent, ua_fails,
                                 api_outcome))
    ELSE IF Succeeded(scrape_via_api(h.st, username, client_ip, user_agent, ua_fails,
                                     api_outcome).result)
    THEN AfterApi(username, client_ip,
                  [h EXCEPT !.attempted = <<"html_json">>],
                  scrape_via_api(h.st, username, client_ip, user_agent, ua_fails,
                                 api_outcome))
    ELSE Success(scrape_via_api(h.st, username, client_ip, user_agent, ua_fails,
                                api_outcome).st,
                 username, client_ip,
                 CompleteResult(h.result, client_ip, h.reqs),
                 h.reqs \o scrape_via_api(h.st, username, client_ip, user_agent,
                                          ua_fails, api_outcome).reqs,
                 <<"html_json", "api", "html_direct">>)

\* lines 209-231, first method
AfterHtml(username, client_ip, user_agent, ua_fails, api_outcome, h) ==
    IF Succeeded(h.result)
    THEN Success(h.st, username, client_ip,
                 CompleteResult(h.result, client_ip, h.reqs), h.reqs, h.attempted)
    ELSE AfterApi(username, client_ip, h,
                  scrape_via_api(h.st, username, client_ip, user_agent, ua_fails,
                                 api_outcome))

\* variant: the caller's IP is not registered before the requests
RegisterClient_Skipped(st, client_ip) == st

\* lines 199-201
RegisterClient(st, client_ip) ==
    IF Truthy(client_ip)
    THEN [st EXCEPT !.user_ips = add_user_ip(@, client_ip, st.now)] ELSE st

scrape_profile(st, username, client_ip, user_agent, ua_fails, html_outcome, api_outcome) ==
    IF ProfileCacheHit(st, username, client_ip)
    THEN ServeProfile(st, username, client_ip, CachedResult(st, username, client_ip))
    ELSE AfterHtml(username, client_ip, user_agent, ua_fails, api_outcome,
                   scrape_via_html(RegisterClient(st, client_ip), username, client_ip,
                                   user_agent, ua_fails, html_outcome))

-----------------------------------------------------------------------------
(* InstagramScraper.test_connection *)

\* variant: an error result is reported like a profile
ConnectionReport_ErrorIgnored(test_data, client_ip) ==
    [status |-> "OPERATIONAL", message |-> "Scraper working with IP rotation",
     used_ip |-> IF "used_ip" \in DOMAIN test_data THEN test_data.used_ip ELSE "direct",
     data_points |-> IF "data_points" \in DOMAIN test_data
                     THEN test_data.data_points ELSE 0]

\* lines 552-566: the report on a scrape that returned (the timestamp is
\* left out)
ConnectionReport(test_data, client_ip) ==
    IF "error" \in DOMAIN test_data
    THEN [status |-> "DEGRADED", message |-> "Connection test failed",
          used_ip |-> OrElse(client_ip, "direct")]
    ELSE [status |-> "OPERATIONAL", message |-> "Scraper working with IP rotation",
          used_ip |-> IF "used_ip" \in DOMAIN test_data
                      THEN test_data.used_ip ELSE "direct",
          data_points |-> IF "data_points" \in DOMAIN test_data
                          THEN test_data.data_points ELSE 0]

\* lines 568-574: the report on a scrape that raised
OfflineReport(client_ip, exception) ==
    [status |-> "OFFLINE", message |-> exception, used_ip |-> OrElse(client_ip, "direct")]

\* scrape_profile, lines 188-201, runs outside its own try: the read of line
\* 192 raises KeyError when the entry expires after the test of line 191, and
\* an exception of add_user_ip (line 201) is not caught either
ScrapeMayRaise(st, username, client_ip) ==
    ProfileCacheHit(st, username, client_ip) \/ Truthy(client_ip)

NoResult == [k \in {} |-> ""]

Tested(out, report, raised) == [out |-> out, report |-> report, raised |-> raised]

Reported(out, client_ip) == Tested(out, ConnectionReport(out.result, client_ip), FALSE)

\* line 550: the known target is scraped with no user agent
test_connection(st, client_ip, ua_fails, html_outcome, api_outcome, raised) ==
    IF raised
    THEN Tested(Out(st, NoResult, << >>, << >>, "none", FALSE),
                OfflineReport(client_ip, "KeyError"), TRUE)
    ELSE Reported(scrape_profile(st, "instagram", client_ip, None, ua_fails,
                                 html_outcome, api_outcome), client_ip)

-----------------------------------------------------------------------------
(* lookup_user: the response code *)

\* lines 143 and 155: the error kinds whose lower-case form holds 'private',
\* and those that hold 'not found' (with the blank: there is none)
MentionPrivate == {"PRIVATE_PROFILE"}
MentionNotFound == {}

\* lines 141-172 and 198-202
lookup_code(scraped_data) ==
    IF "error" \notin DOMAIN scraped_data THEN 200
    ELSE IF scraped_data.error \in MentionPrivate THEN 403
    ELSE IF scraped_data.error \in MentionNotFound THEN 404
    ELSE 500

-----------------------------------------------------------------------------
(* middleware.py: RateLimiter *)

\* lines 15-16: the times recorded for ip, none for an ip not seen before
TimesOf(requests, ip) == IF ip \in DOMAIN requests THEN requests[ip] ELSE << >>

\* line 19: the recorded times still inside the window
Recent(times, current_time, window) ==
    SelectSeq(times, LAMBDA t : current_time - t < window)

Limited(limited, requests) == [limited |-> limited, requests |-> requests]

\* variant: the call's time is recorded before the limit is tested
is_rate_limited_RecordsAll(requests, ip, limit, window, current_time, kept) ==
    Limited(Len(kept) >= limit, (ip :> Append(kept, current_time)) @@ requests)

\* lines 12-27: RateLimiter.is_rate_limited at time current_time; kept is
\* the list line 19 leaves under ip
is_rate_limited(requests, ip, limit, window, current_time, kept) ==
    IF Len(kept) >= limit
    THEN Limited(TRUE, (ip :> kept) @@ requests)
    ELSE Limited(FALSE, (ip :> Append(kept, current_time)) @@ requests)

-----------------------------------------------------------------------------
(* main.py: the Telegram bot's admin list *)

\* line 14; user ids are written as their decimal digits
OWNER_ID == "6430768414"

\* the words a command can carry as its first argument
Words == {OWNER_ID, "42", "042", "77", "abc"}

Numeric(word) == word # "abc"

\* int(context.args[0]): leading zeros do not change the number
int(word) == IF word = "042" THEN "42" ELSE word

\* lines 28-29
is_admin(ADMINS, user_id) == \E i \in 1..Len(ADMINS) : ADMINS[i] = user_id

\* list.remove: the first occurrence is deleted
ListRemove(list, x) ==
    [i \in 1..(Len(list) - 1) |->
        IF \E j \in 1..i : list[j] = x THEN list[i + 1] ELSE list[i]]

Replied(ADMINS, reply, id) == [ADMINS |-> ADMINS, reply |-> reply, id |-> id]

\* lines 73-84; args is the sequence of the command's arguments
add_admin(ADMINS, from_user, args) ==
    IF from_user # OWNER_ID THEN Replied(ADMINS, "Only the owner can add admins.", None)
    ELSE IF Len(args) = 0 THEN Replied(ADMINS, "Usage: /add <user_id>", None)
    ELSE IF ~Numeric(args[1]) THEN Replied(ADMINS, "ValueError", None)
    ELSE Replied(Append(ADMINS, int(args[1])), "Added admin", int(args[1]))

\* lines 86-105
remove_admin(ADMINS, from_user, args) ==
    IF from_user # OWNER_ID THEN Replied(ADMINS, "Only owner can remove admins.", None)
    ELSE IF Len(args) = 0 THEN Replied(ADMINS, "Usage: /remove <user_id>", None)
    ELSE IF ~Numeric(args[1]) THEN Replied(ADMINS, "ValueError", None)
    ELSE IF int(args[1]) = OWNER_ID
         THEN Replied(ADMINS, "Cannot remove owner.", int(args[1]))
    ELSE IF is_admin(ADMINS, int(args[1]))
         THEN Replied(ListRemove(ADMINS, int(args[1])), "Removed admin", int(args[1]))
    ELSE Replied(ADMINS, "User is not admin.", int(args[1]))

-----------------------------------------------------------------------------
(* The state machine *)

EmptyMap == [k \in {} |-> 0]

Init ==
    /\ cache = << >>
    /\ request_count = 0
    /\ user_ips = << >>
    /\ proxies = << >>
    /\ perf = [ip \in AllIPs |-> NoStats]
    /\ now = 0
    /\ sends = 0
    /\ returned = EmptyMap
    /\ last = [op |-> "none"]

SentCount(reqs) == Cardinality({ i \in 1..Len(reqs) : reqs[i].sent })

Install(st) ==
    /\ cache' = st.cache
    /\ request_count' = st.request_count
    /\ user_ips' = st.user_ips
    /\ perf' = st.perf

\* history: a key's record is dropped when its cache entry is evicted
Surviving(c1) ==
    [k \in { k \in DOMAIN returned :
                CacheContains(cache, k, now) => CacheContains(c1, k, now) }
        |-> returned[k]]

Remember(kept, key, result) ==
    [k \in DOMAIN kept \cup {key} |->
        IF k = key THEN [result |-> result, at |-> now] ELSE kept[k]]

\* lookup_user / batch_lookup / test_connection: one scrape_profile call
Scrape(username, client_ip, user_agent, ua_fails, html_outcome, api_outcome) ==
    \E r \in { scrape_profile(State, username, client_ip, user_agent, ua_fails,
                              html_outcome, api_outcome) } :
        /\ sends + SentCount(r.reqs) <= MaxSends
        /\ Install(r.st)
        /\ sends' = sends + SentCount(r.reqs)
        /\ returned' = IF ~r.hit /\ Succeeded(r.result)
                       THEN Remember(Surviving(r.st.cache),
                                     ProfileKey(username, client_ip), r.result)
                       ELSE Surviving(r.st.cache)
        /\ last' = [op |-> "scrape_profile", username |-> username,
                    client_ip |-> client_ip, result |-> r.result, reqs |-> r.reqs,
                    code |-> lookup_code(r.result),
                    attempted |-> r.attempted, winner |-> r.winner,
                    prior |-> IF ProfileKey(username, client_ip) \in DOMAIN returned
                              THEN <<returned[ProfileKey(username, client_ip)]>>
                              ELSE << >>]
        /\ UNCHANGED <<proxies, now>>

\* system_status: one test_connection call
TestConnection(client_ip, ua_fails, html_outcome, api_outcome, raised) ==
    \E t \in { test_connection(State, client_ip, ua_fails, html_outcome, api_outcome,
                               raised) } :
        /\ sends + SentCount(t.out.reqs) <= MaxSends
        /\ Install(t.out.st)
        /\ sends' = sends + SentCount(t.out.reqs)
        /\ returned' = IF ~raised /\ ~t.out.hit /\ Succeeded(t.out.result)
                       THEN Remember(Surviving(t.out.st.cache),
                                     ProfileKey("instagram", client_ip), t.out.result)
                       ELSE Surviving(t.out.st.cache)
        /\ last' = [op |-> "test_connection", client_ip |-> client_ip,
                    report |-> t.report, raised |-> t.raised,
                    result |-> t.out.result, reqs |-> t.out.reqs,
                    attempted |-> t.out.attempted]
        /\ UNCHANGED <<proxies, now>>

\* lookup_user_direct: one cached request for the profile page
LookupUserDirect(username, client_ip, user_agent, outcome) ==
    \E r \in { make_request_with_proxy(State, ProfileUrl(username), client_ip,
                                       user_agent, FALSE, TRUE, outcome) } :
        /\ sends + SentCount(<<r.trace>>) <= MaxSends
        /\ Install(r.st)
        /\ sends' = sends + SentCount(<<r.trace>>)
        /\ returned' = Surviving(r.st.cache)
        /\ last' = [op |-> "lookup_user_direct", username |-> username,
                    client_ip |-> client_ip, reqs |-> <<r.trace>>]
        /\ UNCHANGED <<proxies, now>>

\* home / get_my_ip: the visitor's IP is registered
RegisterIp(client_ip) ==
    /\ user_ips' = add_user_ip(user_ips, client_ip, now)
    /\ last' = [op |-> "none"]
    /\ UNCHANGED <<cache, request_count, proxies, perf, now, sends, returned>>

NewProxies(found) ==
    SelectSeq(found, LAMBDA p : p.ip \notin { proxies[i].ip : i \in 1..Len(proxies) })

\* refresh_proxies: refresh_proxy_pool() merges the new unique addresses the
\* external source yields and returns how many it added
RefreshProxyPool(found) ==
    /\ proxies' = proxies \o NewProxies(found)
    /\ last' = [op |-> "none"]
    /\ UNCHANGED <<cache, request_count, user_ips, perf, now, sends, returned>>

\* time passes between handlers
Tick ==
    /\ now + TickStep <= MaxTime
    /\ now' = now + TickStep
    /\ last' = [op |-> "none"]
    /\ UNCHANGED <<cache, request_count, user_ips, proxies, perf, sends, returned>>

UaChoices == { <<"TestAgent/1.0", FALSE>>, <<None, TRUE>> }

\* An outcome is drawn only for a request the handler may send, and only
\* while the model's budget of sends lasts; a request that is not sent
\* reads none
Unread == Failure("none")

Budget(n, outcomes) == IF sends + n <= MaxSends THEN outcomes ELSE {}

HtmlInputs(u, ip, ua) ==
    IF ProfileCacheHit(State, u, ip) \/ get_headers_raises(ua[1], ua[2])
    THEN {Unread} ELSE Budget(1, Outcomes(HtmlBodies))

ApiInputs(u, ip, ua, h) ==
    IF \/ ProfileCacheHit(State, u, ip) \/ get_headers_raises(ua[1], ua[2])
       \/ RequestCacheHit(State, ProfileJsonUrl(u), ip, TRUE)
       \/ (h.status = 200 /\ ~h.body.private /\ ~h.body.notavail
           /\ h.body.json \in {"none", "user"})
    THEN {Unread} ELSE Budget(2, Outcomes(ApiBodies))

\* the connection test is answered with the plain page or the API's user
\* object, a 404 or a timeout
ConnectionOutcomes(body) ==
    { Response(200, body, 1), Response(404, EmptyBody, 2), Failure("timeout") }

ConnectionInputs(ip, ua_fails) ==
    IF ProfileCacheHit(State, "instagram", ip) \/ ua_fails
    THEN {Unread} ELSE Budget(1, ConnectionOutcomes(PlainPage))

ConnectionApiInputs(ip, ua_fails, h) ==
    IF \/ ProfileCacheHit(State, "instagram", ip) \/ ua_fails
       \/ RequestCacheHit(State, ProfileJsonUrl("instagram"), ip, TRUE)
       \/ h.status = 200
    THEN {Unread} ELSE Budget(2, ConnectionOutcomes(Body(FALSE, FALSE, "user", 700, 0)))

DirectInputs(u, ip) ==
    IF RequestCacheHit(State, ProfileUrl(u), ip, TRUE)
    THEN {Unread} ELSE Budget(1, Outcomes({PlainPage}))

Next ==
    \/ \E u \in Usernames, ip \in ClientIPs \cup {None}, ua \in UaChoices :
          \E h \in HtmlInputs(u, ip, ua) : \E a \in ApiInputs(u, ip, ua, h) :
            Scrape(u, ip, ua[1], ua[2], h, a)
    \/ \E ip \in ClientIPs, f \in BOOLEAN :
          \E h \in ConnectionInputs(ip, f) :
            \E a \in ConnectionApiInputs(ip, f, h) :
              TestConnection(ip, f, h, a, FALSE)
    \/ \E ip \in ClientIPs :
          /\ ScrapeMayRaise(State, "instagram", ip)
          /\ TestConnection(ip, FALSE, Unread, Unread, TRUE)
    \/ \E u \in Usernames, ip \in ClientIPs : \E o \in DirectInputs(u, ip) :
            LookupUserDirect(u, ip, "TestAgent/1.0", o)
    \/ \E ip \in ClientIPs : RegisterIp(ip)
    \/ RefreshProxyPool(ProxySource)
    \/ Tick

Spec == Init /\ [][Next]_vars

-----------------------------------------------------------------------------
(* _parse_count_string on its own: one call per count string *)

CountChars == {"1", "4", ".", ",", "K", "M", "k", "x"}

CountStrings == UNION { [1..n -> CountChars] : n \in 0..MaxCountLen }

CountInit ==
    /\ cache = << >>
    /\ request_count = 0
    /\ user_ips = << >>
    /\ proxies = << >>
    /\ perf = [ip \in AllIPs |-> NoStats]
    /\ now = 0
    /\ sends = 0
    /\ returned = EmptyMap
    /\ \E str \in CountStrings : last = [op |-> "call", count_str |-> str]

ParseCount ==
    /\ last.op = "call"
    /\ last' = [op |-> "parse_count_string", count_str |-> last.count_str,
                result |-> parse_count_string(last.count_str)]
    /\ UNCHANGED <<cache, request_count, user_ips, proxies, perf, now, sends, returned>>

CountNext == ParseCount

CountSpec == CountInit /\ [][CountNext]_vars

-----------------------------------------------------------------------------
(* _make_request_with_proxy run by concurrent request threads: app.run     *)
(* serves each request on a thread of its own, all on the one scraper.    *)
(* Nothing in the handler takes a lock, so the threads' steps interleave; *)
(* the statement of line 152 reads the counter and writes it back.        *)

Threads == {"t1", "t2"}

\* each thread requests the profile page for a client of its own
ThreadClient(t) == IF t = "t1" THEN "1.2.3.4" ELSE None

ThreadsAt(pc, loaded, calls) ==
    [op |-> "threads", pc |-> pc, loaded |-> loaded, calls |-> calls]

ConcInit ==
    /\ cache = << >>
    /\ request_count = 0
    /\ user_ips = << >>
    /\ proxies = << >>
    /\ perf = [ip \in AllIPs |-> NoStats]
    /\ now = 0
    /\ sends = 0
    /\ returned = EmptyMap
    /\ last = ThreadsAt([t \in Threads |-> "idle"], [t \in Threads |-> 0],
                        [t \in Threads |-> 0])

\* lines 121-149: session.get returns a 200 response
ThreadSend(t) ==
    /\ last.pc[t] = "idle" /\ last.calls[t] < MaxSends
    /\ sends' = sends + 1
    /\ last' = [last EXCEPT !.pc[t] = "sent"]
    /\ UNCHANGED <<cache, request_count, user_ips, proxies, perf, now, returned>>

\* line 152: self.request_count is read
ThreadLoad(t) ==
    /\ last.pc[t] = "sent"
    /\ last' = [last EXCEPT !.pc[t] = "loaded", !.loaded[t] = request_count]
    /\ UNCHANGED <<cache, request_count, user_ips, proxies, perf, now, sends, returned>>

\* line 152: the value read, plus one, is written back
ThreadStore(t) ==
    /\ last.pc[t] = "loaded"
    /\ request_count' = last.loaded[t] + 1
    /\ last' = [last EXCEPT !.pc[t] = "counted"]
    /\ UNCHANGED <<cache, user_ips, proxies, perf, now, sends, returned>>

\* lines 160-162: the response enters the cache; the call returns
ThreadCache(t) ==
    /\ last.pc[t] = "counted"
    /\ cache' = CacheSet(cache, RequestKey(ProfileUrl("instagram"), ThreadClient(t)),
                         Response(200, PlainPage, 1), now)
    /\ last' = [last EXCEPT !.pc[t] = "idle", !.calls[t] = @ + 1]
    /\ UNCHANGED <<request_count, user_ips, proxies, perf, now, sends, returned>>

ConcNext ==
    \E t \in Threads : ThreadSend(t) \/ ThreadLoad(t) \/ ThreadStore(t) \/ ThreadCache(t)

ConcSpec == ConcInit /\ [][ConcNext]_vars

-----------------------------------------------------------------------------
(* The user-IP registry on its own: the / and /api/v1/my_ip routes hit by  *)
(* several visitors, each hit one add_user_ip call                        *)

VisitorIPs == ClientIPs \cup {"5.6.7.8", "9.10.11.12"}

RegistryInit ==
    /\ cache = << >>
    /\ request_count = 0
    /\ user_ips = << >>
    /\ proxies = << >>
    /\ perf = [ip \in AllIPs |-> NoStats]
    /\ now = 0
    /\ sends = 0
    /\ returned = EmptyMap
    /\ last = [op |-> "start", added |-> {}]

\* home / get_my_ip: the visitor's IP is registered; `before` is the registry
\* the call found, `added` the IPs registered so far
Visit(client_ip) ==
    /\ user_ips' = add_user_ip(user_ips, client_ip, now)
    /\ last' = [op |-> "add_user_ip", client_ip |-> client_ip, before |-> user_ips,
                added |-> last.added \cup {client_ip}]
    /\ UNCHANGED <<cache, request_count, proxies, perf, now, sends, returned>>

RegistryTick ==
    /\ now + TickStep <= MaxTime
    /\ now' = now + TickStep
    /\ last' = [op |-> "tick", added |-> last.added]
    /\ UNCHANGED <<cache, request_count, user_ips, proxies, perf, sends, returned>>

RegistryNext == (\E ip \in VisitorIPs : Visit(ip)) \/ RegistryTick

RegistrySpec == RegistryInit /\ [][RegistryNext]_vars

-----------------------------------------------------------------------------
(* _scrape_via_html's reading of the response on its own: one call per     *)
(* response                                                               *)

ClassifyBodies ==
    { Body(p, n, j, f, t) : p \in BOOLEAN, n \in BOOLEAN,
                            j \in {"none", "nouser", "baduser", "user"},
                            f \in {0, 500}, t \in {0, 1200} }

ClassifyResponses ==
    {NoResponse} \cup { [status_code |-> sc, text |-> b] :
                           sc \in {200, 404, 500}, b \in ClassifyBodies }

ClassifyInit ==
    /\ cache = << >>
    /\ request_count = 0
    /\ user_ips = << >>
    /\ proxies = << >>
    /\ perf = [ip \in AllIPs |-> NoStats]
    /\ now = 0
    /\ sends = 0
    /\ returned = EmptyMap
    /\ \E r \in ClassifyResponses : last = [op |-> "call", response |-> r]

Classify ==
    /\ last.op = "call"
    /\ last' = [op |-> "_scrape_via_html", response |-> last.response,
                yield |-> ClassifyHtml(last.response, "instagram")]
    /\ UNCHANGED <<cache, request_count, user_ips, proxies, perf, now, sends, returned>>

ClassifySpec == ClassifyInit /\ [][Classify]_vars

-----------------------------------------------------------------------------
(* _extract_posts on its own: one call per list of timeline edges *)

Text(n) == [i \in 1..n |-> "x"]

TypeNames ==
    { <<"Graph", "Image">>, <<"Graph", "Video">>, <<"Graph", "Sidecar">>,
      <<"Graph", "Story">>, <<"Graph", "Video", "Image">>, << >> }

CaptionLists == { << >>, <<Text(0)>>, <<Text(200)>>, <<Text(201), Text(3)>> }

\* k edges with ids 1..k, all of one typename and caption, the edge at
\* `hole` (if any) without a node
EdgeList(k, hole, typename, captions) ==
    [i \in 1..k |-> Edge(i # hole, i, typename, captions)]

PostsInit ==
    /\ cache = << >>
    /\ request_count = 0
    /\ user_ips = << >>
    /\ proxies = << >>
    /\ perf = [ip \in AllIPs |-> NoStats]
    /\ now = 0
    /\ sends = 0
    /\ returned = EmptyMap
    /\ \E k \in 0..MaxEdges, t \in TypeNames, c \in CaptionLists :
          \E hole \in 0..k :
            last = [op |-> "call", edges |-> EdgeList(k, hole, t, c)]

ExtractPosts ==
    /\ last.op = "call"
    /\ last' = [op |-> "_extract_posts", edges |-> last.edges,
                extracted |-> extract_posts(last.edges),
                posts |-> PostsPayload(extract_posts(last.edges))]
    /\ UNCHANGED <<cache, request_count, user_ips, proxies, perf, now, sends, returned>>

PostsSpec == PostsInit /\ [][ExtractPosts]_vars

-----------------------------------------------------------------------------
(* The search for the user object on its own: one call per JSON document *)

EmptyDict == JDict([k \in {} |-> JNone])

\* what may stand where a user object is looked for
Candidates(name) ==
    { JDict([username |-> JStr(<<name>>)]), JDict([id |-> JStr(<<"1">>)]),
      JStr(<<"the", "username">>), EmptyDict }

\* entry_data: ProfilePage is a list (empty, or of one page), or a dict
\* under the key "0"
EntryData ==
    { JDict([ProfilePage |-> JList(<< >>)]) }
    \cup { JDict([ProfilePage |-> JList(<<JDict([graphql |-> JDict([user |-> c])])>>)]) :
             c \in Candidates("a") }
    \cup { JDict([ProfilePage |->
                    JDict([k \in {"0"} |->
                            JDict([graphql |->
                                    JDict([user |-> JDict([username |-> JStr(<<"a">>)])])])])]) }

Document(keys, e, g, u) ==
    JDict([k \in keys |-> CASE k = "entry_data" -> e
                            [] k = "graphql" -> JDict([user |-> g])
                            [] OTHER -> u])

Documents ==
    { Document(keys, e, g, u) :
        keys \in SUBSET {"entry_data", "graphql", "user"},
        e \in EntryData, g \in Candidates("b"), u \in Candidates("c") }

LookupInit ==
    /\ cache = << >>
    /\ request_count = 0
    /\ user_ips = << >>
    /\ proxies = << >>
    /\ perf = [ip \in AllIPs |-> NoStats]
    /\ now = 0
    /\ sends = 0
    /\ returned = EmptyMap
    /\ \E d \in Documents : last = [op |-> "call", json_data |-> d]

ParseJsonData ==
    /\ last.op = "call"
    /\ last' = [op |-> "_parse_html_response", json_data |-> last.json_data,
                result |-> parse_json_data(last.json_data)]
    /\ UNCHANGED <<cache, request_count, user_ips, proxies, perf, now, sends, returned>>

LookupSpec == LookupInit /\ [][ParseJsonData]_vars

-----------------------------------------------------------------------------
(* RateLimiter under calls from two addresses while time passes *)

LimitedIPs == ClientIPs \cup {"5.6.7.8"}

\* rate_limiter.requests, the times of the accepted calls of each ip since
\* the start, and the last call with the list it found
Limiter(op, requests, accepted, ip, limited, before) ==
    [op |-> op, requests |-> requests, accepted |-> accepted, ip |-> ip,
     limited |-> limited, before |-> before]

RateInit ==
    /\ cache = << >>
    /\ request_count = 0
    /\ user_ips = << >>
    /\ proxies = << >>
    /\ perf = [ip \in AllIPs |-> NoStats]
    /\ now = 0
    /\ sends = 0
    /\ returned = EmptyMap
    /\ last = Limiter("start", EmptyMap, [ip \in LimitedIPs |-> << >>], None,
                      FALSE, << >>)

\* one call of is_rate_limited(ip, RateLimit, RateWindow) at time now
IsRateLimited(ip) ==
    \E r \in { is_rate_limited(last.requests, ip, RateLimit, RateWindow, now,
                               Recent(TimesOf(last.requests, ip), now, RateWindow)) } :
        /\ last' = Limiter("is_rate_limited", r.requests,
                           IF r.limited THEN last.accepted
                           ELSE [last.accepted EXCEPT ![ip] = Append(@, now)],
                           ip, r.limited, TimesOf(last.requests, ip))
        /\ UNCHANGED <<cache, request_count, user_ips, proxies, perf, now, sends,
                       returned>>

\* time.time() advances
RateTick ==
    /\ now < MaxClock
    /\ now' = now + 1
    /\ last' = [last EXCEPT !.op = "tick"]
    /\ UNCHANGED <<cache, request_count, user_ips, proxies, perf, sends, returned>>

RateNext == (\E ip \in LimitedIPs : IsRateLimited(ip)) \/ RateTick

RateSpec == RateInit /\ [][RateNext]_vars

-----------------------------------------------------------------------------
(* The bot under /add and /remove commands *)

Senders == {OWNER_ID, "42"}

ArgLists == {<< >>} \cup { <<w>> : w \in Words }

\* ADMINS, the last command with its reply, and the number of commands
Bot(op, r, commands) ==
    [op |-> op, ADMINS |-> r.ADMINS, reply |-> r.reply, id |-> r.id,
     commands |-> commands]

AdminInit ==
    /\ cache = << >>
    /\ request_count = 0
    /\ user_ips = << >>
    /\ proxies = << >>
    /\ perf = [ip \in AllIPs |-> NoStats]
    /\ now = 0
    /\ sends = 0
    /\ returned = EmptyMap
    /\ last = Bot("start", Replied(<<OWNER_ID>>, None, None), 0)

\* /add
AddAdmin(from_user, args) ==
    /\ last.commands < MaxCommands
    /\ last' = Bot("add", add_admin(last.ADMINS, from_user, args), last.commands + 1)
    /\ UNCHANGED <<cache, request_count, user_ips, proxies, perf, now, sends,
                   returned>>

\* /remove
RemoveAdmin(from_user, args) ==
    /\ last.commands < MaxCommands
    /\ last' = Bot("remove", remove_admin(last.ADMINS, from_user, args),
                   last.commands + 1)
    /\ UNCHANGED <<cache, request_count, user_ips, proxies, perf, now, sends,
                   returned>>

AdminNext ==
    \E u \in Senders, args \in ArgLists : AddAdmin(u, args) \/ RemoveAdmin(u, args)

AdminSpec == AdminInit /\ [][AdminNext]_vars

-----------------------------------------------------------------------------
(* Properties of _make_request_with_proxy *)

\* the requests of the handler that ran last
LastReqs == IF "reqs" \in DOMAIN last THEN last.reqs ELSE << >>

Req(i) == LastReqs[i]

ReqIds == 1..Len(LastReqs)

\* the request finds a live entry under its key and may use it
Hit(r) == r.use_cache /\ r.cached_before # << >>

\* a known user IP applies to the request
OwnIpApplies(r) == Truthy(r.client_ip) /\ r.ip_known

\* C1: every non-cached request whose client_ip is supplied and known to
\* get_user_ip_proxy is routed own-ip (user_ip), whether or not
\* get_best_proxy() has a candidate, and the pool is neither consulted nor
\* used for it.
C1_OwnIpFirst ==
    \A i \in ReqIds :
        (~Hit(Req(i)) /\ OwnIpApplies(Req(i))) =>
            /\ Req(i).proxy_type = "user_ip"
            /\ Req(i).proxy_ip = Req(i).client_ip
            /\ Req(i).lookups = <<"get_user_ip_proxy">>
            /\ Req(i).proxies = None

\* a request went out own-ip while the pool had a candidate to offer
C1_Witness ==
    \E i \in ReqIds :
        /\ Req(i).sent /\ OwnIpApplies(Req(i)) /\ Req(i).best_ip # None
        /\ Req(i).proxy_type = "user_ip"

C2_WitnessDirect ==
    \E i \in ReqIds :
        Req(i).sent /\ Req(i).proxy_type = "direct" /\ Req(i).proxies = None

\* C8: a request made with use_cache whose key (url, client_ip) is present
\* and unexpired returns the cached response and does nothing else: no
\* routing lookup, no delay, no send, no request_count increment, no
\* update_proxy_performance call.
C8_HitHasNoEffect ==
    \A i \in ReqIds :
        Hit(Req(i)) =>
            /\ Req(i).response = Req(i).cached_before[1]
            /\ Req(i).lookups = << >>
            /\ ~Req(i).slept /\ ~Req(i).sent
            /\ Req(i).count_after = Req(i).count_before
            /\ Req(i).perf = << >>

\* a request was served from the request cache
C8_Witness ==
    \E i \in ReqIds : Hit(Req(i)) /\ ~Req(i).sent /\ Req(i).response.status_code = 200

Urls == { ProfileUrl(u) : u \in Usernames } \cup { ProfileJsonUrl(u) : u \in Usernames }

RequestKeys == { RequestKey(url, ip) : url \in Urls, ip \in ClientIPs \cup {None} }

\* the live entry under a key, as a sequence of at most one value
LiveEntry(k) == IF CacheContains(cache, k, now) THEN <<CacheGet(cache, k)>> ELSE << >>

\* the send did not end in a 200 response
NotOk(r) == r.sent /\ (r.outcome # "response" \/ r.response.status_code # 200)

\* C9: every entry of the request cache holds a response of status 200, and
\* a send that ends otherwise (non-200, timeout, connection error, other
\* failure) leaves the entry under its key as it was.
C9_OnlyOkCached ==
    /\ \A j \in 1..Len(cache) :
          cache[j].key \in RequestKeys => cache[j].value.status_code = 200
    /\ \A i \in ReqIds :
          NotOk(Req(i)) =>
              LiveEntry(RequestKey(Req(i).url, Req(i).client_ip)) = Req(i).cached_before

\* a caching request ended non-200 while the request cache held an entry
C9_Witness ==
    /\ \E j \in 1..Len(cache) : cache[j].key \in RequestKeys
    /\ \E i \in ReqIds : Req(i).use_cache /\ NotOk(Req(i))

\* the IP a route reports performance against
RouteIp(r) == IF r.proxy_type = "user_ip" THEN r.client_ip ELSE r.best_ip

\* C10: a send that completes with a response records exactly one
\* update_proxy_performance call on route own-ip or pool-proxy, against the
\* route's IP and with success = (status = 200), and none on route direct.
C10_FeedbackPerSend ==
    \A i \in ReqIds :
        (Req(i).sent /\ Req(i).outcome = "response") =>
            IF Req(i).proxy_type \in {"user_ip", "pool_proxy"}
            THEN /\ Len(Req(i).perf) = 1
                 /\ Req(i).perf[1].ip = RouteIp(Req(i))
                 /\ Req(i).perf[1].success = (Req(i).response.status_code = 200)
            ELSE Req(i).perf = << >>

\* a pool-proxy send came back non-200 and was recorded as a failure
C10_Witness ==
    \E i \in ReqIds :
        /\ Req(i).sent /\ Req(i).outcome = "response"
        /\ Req(i).proxy_type = "pool_proxy" /\ Req(i).response.status_code # 200
        /\ Len(Req(i).perf) = 1 /\ ~Req(i).perf[1].success

-----------------------------------------------------------------------------
(* Properties of scrape_profile *)

Scraped == last.op = "scrape_profile"

\* the call found no live profile-cache entry and ran the methods
Fresh == Scraped /\ last.attempted # << >>

ReturnsProfile(result) == "profile" \in DOMAIN result /\ "error" \notin DOMAIN result

\* the error kinds a result may carry
ErrorKinds == {"REQUEST_FAILED", "TIMEOUT", "CONNECTION_ERROR", "PRIVATE_PROFILE",
               "PROFILE_NOT_FOUND", "USER_DATA_NOT_FOUND", "USER_NOT_FOUND",
               "PARSING_ERROR", "API_FAILED", "SCRAPING_FAILED",
               "AUTHENTICATION_REQUIRED"}

ReturnsError(result) == "error" \in DOMAIN result /\ result.error \in ErrorKinds

\* C3: a scrape_profile call for a (username, client_ip) that an earlier
\* call returned a profile for, made less than the TTL after that profile
\* entered the cache and with the entry not evicted, returns the same
\* profile with cached = true, makes no request (so sends nothing) and
\* records no update_proxy_performance call.
C3_CachedScrapeRepeats ==
    (Scraped /\ last.prior # << >> /\ now < last.prior[1].at + CacheTTL) =>
        /\ ReturnsProfile(last.result)
        /\ last.result.profile = last.prior[1].result.profile
        /\ last.result.cached = TRUE
        /\ last.reqs = << >>
        /\ last.attempted = << >>

\* a second call at a later time, inside the TTL window, served from the cache
C3_Witness ==
    /\ Scraped /\ last.prior # << >>
    /\ last.prior[1].at < now /\ now < last.prior[1].at + CacheTTL
    /\ last.result.cached = TRUE /\ last.reqs = << >>

C4_WitnessTransport ==
    /\ Scraped /\ Len(last.reqs) = 2
    /\ last.reqs[1].outcome = "timeout" /\ last.reqs[2].outcome = "connection_error"
    /\ ReturnsError(last.result)

\* the profile page came back 200 with the private-account marker
PrivatePageFetched ==
    /\ Fresh /\ last.reqs[1].sent /\ last.reqs[1].outcome = "response"
    /\ last.reqs[1].response.status_code = 200
    /\ last.reqs[1].response.text.private

\* C5: whenever the profile page scrape_profile fetched is a 200 carrying
\* "This Account is Private", the result of scrape_profile is the error
\* PRIVATE_PROFILE.
C5_PrivateReported ==
    PrivatePageFetched =>
        ("error" \in DOMAIN last.result /\ last.result.error = "PRIVATE_PROFILE")

\* such a page was fetched, the API then failed, and the caller was told
\* SCRAPING_FAILED
C5_Witness ==
    /\ PrivatePageFetched /\ last.attempted = <<"html_json", "api">>
    /\ "error" \in DOMAIN last.result /\ last.result.error = "SCRAPING_FAILED"

IsPrefix(a, b) == Len(a) <= Len(b) /\ a = SubSeq(b, 1, Len(a))

\* the response a strategy worked on: the page for the two HTML
\* strategies, the JSON endpoint's answer for the API
PageOf(reqs) == IF reqs[1].raised THEN NoResponse ELSE reqs[1].response

ApiAnswerOf(reqs) == IF Len(reqs) = 2 THEN reqs[2].response ELSE NoResponse

\* what one strategy yields on the responses of the call
StrategyYield(s, reqs, username) ==
    CASE s = "html_json" ->
            IF reqs[1].raised THEN Err("HTML_PARSING_FAILED")
            ELSE IF ClassifyHtml(PageOf(reqs), username).attempted = <<"html_json">>
            THEN ClassifyHtml(PageOf(reqs), username).result
            ELSE Err("USER_DATA_NOT_FOUND")
      [] s = "html_direct" -> parse_html_directly(PageOf(reqs).text, username)
      [] s = "api" -> ClassifyApi(ApiAnswerOf(reqs))

YieldOf(k) == StrategyYield(last.attempted[k], last.reqs, last.username)

\* the page is a 200 without the private / not-available markers and
\* without embedded JSON
PlainPageFetched(reqs) ==
    /\ ~reqs[1].raised /\ PageOf(reqs) # NoResponse
    /\ PageOf(reqs).status_code = 200
    /\ ~PageOf(reqs).text.private /\ ~PageOf(reqs).text.notavail
    /\ PageOf(reqs).text.json = "none"

IsScrapingFailed(result) ==
    /\ "error" \in DOMAIN result /\ result.error = "SCRAPING_FAILED"
    /\ "message" \in DOMAIN result /\ "used_ip" \in DOMAIN result

\* C7: scrape_profile returns SCRAPING_FAILED, with a message and used_ip,
\* iff it attempted strategies and every one of them failed; the profile
\* cache then holds no live entry under the call's key, so that the next
\* identical call runs the strategies again.
C7_FailedIffAllFailed ==
    Scraped =>
        /\ ("error" \in DOMAIN last.result) = IsScrapingFailed(last.result)
        /\ IsScrapingFailed(last.result) <=>
              (Fresh /\ \A k \in 1..Len(last.attempted) : ~Succeeded(YieldOf(k)))
        /\ IsScrapingFailed(last.result) =>
              ~ProfileCacheHit(State, last.username, last.client_ip)

\* both methods sent their request and both failed
C7_Witness ==
    /\ Scraped /\ IsScrapingFailed(last.result)
    /\ Len(last.reqs) = 2 /\ last.reqs[1].sent /\ last.reqs[2].sent

-----------------------------------------------------------------------------
(* Properties of the failure path of _make_request_with_proxy *)

TimedOutOrUnreachable(r) == r.sent /\ r.outcome \in {"timeout", "connection_error"}

\* C11: a send that ends in a timeout or a connection error returns no
\* response instead of raising and caches nothing; on route own-ip or
\* pool-proxy it records exactly one update_proxy_performance call, against
\* the route's IP, with success = false and latency = 10.0.
C11_FailurePenalty ==
    \A i \in ReqIds :
        TimedOutOrUnreachable(Req(i)) =>
            /\ ~Req(i).raised /\ Req(i).response = NoResponse
            /\ ~Req(i).stored
            /\ LiveEntry(RequestKey(Req(i).url, Req(i).client_ip)) = Req(i).cached_before
            /\ Req(i).proxy_type \in {"user_ip", "pool_proxy"} =>
                  Req(i).perf = << [ip |-> RouteIp(Req(i)), success |-> FALSE,
                                    latency |-> PenaltyLatency] >>

\* a pool-proxy send timed out and the penalty was recorded against the proxy
C11_Witness ==
    \E i \in ReqIds :
        /\ Req(i).sent /\ Req(i).outcome = "timeout"
        /\ Req(i).proxy_type = "pool_proxy" /\ Len(Req(i).perf) = 1
        /\ perf[Req(i).best_ip].fail > 0 /\ perf[Req(i).best_ip].lat = PenaltyLatency

-----------------------------------------------------------------------------
(* Properties of the results of scrape_profile *)

\* the name used_ip should give a route: the client IP on own-ip, a
\* pool-proxy marker on pool-proxy, "direct" on direct
RouteName(r) ==
    CASE r.proxy_type = "user_ip" -> r.client_ip
      [] r.proxy_type = "pool_proxy" -> "pool_proxy"
      [] OTHER -> "direct"

\* C12: every result of scrape_profile carries a used_ip that names the
\* route its outbound requests actually went by.
C12_UsedIpNamesRoute ==
    Scraped =>
        /\ "used_ip" \in DOMAIN last.result
        /\ \A i \in ReqIds : Req(i).sent => last.result.used_ip = RouteName(Req(i))

\* a profile fetched over a direct connection is labelled pool_proxy
C12_Witness ==
    /\ Scraped /\ ReturnsProfile(last.result) /\ Len(last.reqs) = 1
    /\ last.reqs[1].sent /\ last.reqs[1].proxy_type = "direct"
    /\ last.result.used_ip = "pool_proxy"

\* a failure whose requests went through a pool proxy is labelled direct
C12_WitnessFailure ==
    /\ Scraped /\ IsScrapingFailed(last.result) /\ Len(last.reqs) = 2
    /\ last.reqs[1].sent /\ last.reqs[1].proxy_type = "pool_proxy"
    /\ last.result.used_ip = "direct"

\* the profile page came back 200, without marker strings, its embedded
\* JSON holding a well-formed user object
UserPageFetched ==
    /\ Fresh /\ last.reqs[1].sent /\ last.reqs[1].outcome = "response"
    /\ last.reqs[1].response.status_code = 200
    /\ ~last.reqs[1].response.text.private /\ ~last.reqs[1].response.text.notavail
    /\ last.reqs[1].response.text.json = "user"

-----------------------------------------------------------------------------
(* Properties of the headers sent *)

Forwards(headers, ip) ==
    /\ "X-Forwarded-For" \in DOMAIN headers /\ headers["X-Forwarded-For"] = ip
    /\ "X-Real-IP" \in DOMAIN headers /\ headers["X-Real-IP"] = ip

\* C14: every request sent on the own-ip route goes out with the headers
\* X-Forwarded-For = client_ip and X-Real-IP = client_ip.
C14_OwnIpForwards ==
    \A i \in ReqIds :
        (Req(i).sent /\ Req(i).proxy_type = "user_ip") =>
            Forwards(Req(i).headers, Req(i).client_ip)

\* a request went out on the own-ip route with the User-Agent header only
C14_Witness ==
    \E i \in ReqIds :
        /\ Req(i).sent /\ Req(i).proxy_type = "user_ip"
        /\ DOMAIN Req(i).headers = {"User-Agent"}
        /\ Forwards(HeadersAfterSend(Req(i).proxy_type, Req(i).client_ip,
                                     Req(i).headers["User-Agent"]),
                    Req(i).client_ip)

-----------------------------------------------------------------------------
(* Properties of _parse_count_string *)

\* digits, or digits "." digits
IsDecimal(str) ==
    /\ Len(IntPart(str)) > 0 /\ AllDigits(IntPart(str))
    /\ Contains(str, ".") => (Len(FracPart(str)) > 0 /\ AllDigits(FracPart(str)))

Front(str) == SubSeq(str, 1, Len(str) - 1)

\* n * mult for the decimal n that str writes, as an integer
Scaled(str, mult) ==
    DivSmall(MulSmall(NatToBits(DigitsValue(IntPart(str) \o FracPart(str), 0)), mult),
             Pow10(Len(FracPart(str)))).q

\* what the count of a string should be: n * 1000 for a decimal n followed
\* by K, n * 1000000 for n followed by M, the integer for plain digits, 0
\* for anything else (commas and letter case set aside)
ClaimedCount(str) ==
    IF Len(str) >= 2 /\ str[Len(str)] = "K" /\ IsDecimal(Front(str))
    THEN Scaled(Front(str), 1000)
    ELSE IF Len(str) >= 2 /\ str[Len(str)] = "M" /\ IsDecimal(Front(str))
    THEN Scaled(Front(str), 1000000)
    ELSE IF IntParses(str) THEN NatToBits(DigitsValue(str, 0))
    ELSE << >>

\* C15: _parse_count_string returns n * 1000 for a decimal n followed by K,
\* n * 1000000 for n followed by M, the integer for a plain digit string
\* and 0 for every malformed string.
C15_CountParsing ==
    last.op = "parse_count_string" =>
        last.result = ClaimedCount(Upper(Remove(last.count_str, ",")))

\* "4.1M" came out as 4099999
C15_Witness ==
    /\ last.op = "parse_count_string" /\ last.count_str = <<"4", ".", "1", "M">>
    /\ last.result = NatToBits(4099999)

\* the spec's three examples came out as the spec says
C15_WitnessExamples ==
    /\ parse_count_string(<<"1", ".", "2", "K">>) = NatToBits(1200)
    /\ parse_count_string(<<"3", "M">>) = NatToBits(3000000)
    /\ parse_count_string(<<"5", "0", "0">>) = NatToBits(500)
    /\ last.op = "parse_count_string" /\ last.count_str = <<"1", "4", "K">>
    /\ last.result = NatToBits(14000)

\* a malformed string, "1K4", came out as 14000
C15_WitnessMalformed ==
    /\ last.op = "parse_count_string" /\ last.count_str = <<"1", "K", "4">>
    /\ last.result = NatToBits(14000)

-----------------------------------------------------------------------------
(* test_connection *)

ConnectionTested == last.op = "test_connection"

\* C16: test_connection returns a report whose status is OPERATIONAL,
\* DEGRADED or OFFLINE and which names a used_ip: DEGRADED exactly when
\* the scrape of the known target returned an error result, OPERATIONAL,
\* with data_points, exactly when it returned a profile, OFFLINE exactly
\* when the scrape raised.
C16_TestConnection ==
    ConnectionTested =>
        /\ last.report.status \in {"OPERATIONAL", "DEGRADED", "OFFLINE"}
        /\ "used_ip" \in DOMAIN last.report
        /\ last.report.used_ip \in ClientIPs \cup {"direct", "pool_proxy"}
        /\ (last.report.status = "DEGRADED"
              <=> (~last.raised /\ "error" \in DOMAIN last.result))
        /\ (last.report.status = "OPERATIONAL"
              <=> (~last.raised /\ ReturnsProfile(last.result)))
        /\ (last.report.status = "OPERATIONAL"
              => /\ "data_points" \in DOMAIN last.report
                 /\ last.report.data_points = last.result.data_points)
        /\ (last.report.status = "OFFLINE" <=> last.raised)

C16_Witness ==
    /\ ConnectionTested /\ last.report.status = "OPERATIONAL"
    /\ Len(last.reqs) > 0 /\ last.report.data_points > 0

C16_WitnessDegraded ==
    /\ ConnectionTested /\ last.report.status = "DEGRADED"
    /\ last.result.error = "SCRAPING_FAILED" /\ Len(last.reqs) = 2

C16_WitnessOffline ==
    /\ ConnectionTested /\ last.report.status = "OFFLINE" /\ last.raised

-----------------------------------------------------------------------------
(* concurrent callers *)

\* no call is under way
Quiescent == last.op = "threads" /\ \A t \in Threads : last.pc[t] = "idle"

\* C17: however the steps of concurrent _make_request_with_proxy calls
\* interleave, no update of the shared state is lost and the cache stays
\* within its capacity: once the calls have returned, the request counter
\* equals the number of sends made.
C17_AtomicMutation ==
    /\ Len(cache) <= CacheMaxSize
    /\ (Quiescent => request_count = sends)

\* two calls overlapped and one increment was lost
C17_Witness ==
    /\ Quiescent /\ sends = 2 /\ request_count = 1
    /\ \A t \in Threads : last.calls[t] = 1

-----------------------------------------------------------------------------
(* the user-IP registry *)

EntriesOf(uips, ip) == { i \in 1..Len(uips) : uips[i].ip = ip }

RepeatCall == last.op = "add_user_ip" /\ last.client_ip \in RegisteredIPs(last.before)

\* C18: after any sequence of add_user_ip calls the registry holds exactly
\* one entry for each distinct IP added and none for any other,
\* get_user_ip_proxy returns a candidate for every IP added, and a call for
\* an IP already known changes nothing but that IP's last-seen time.
C18_AddUserIpIdempotent ==
    /\ \A ip \in VisitorIPs :
          Cardinality(EntriesOf(user_ips, ip)) = IF ip \in last.added THEN 1 ELSE 0
    /\ \A ip \in last.added : get_user_ip_proxy(user_ips, ip) # None
    /\ RepeatCall =>
          /\ Len(user_ips) = Len(last.before)
          /\ \A i \in 1..Len(user_ips) :
                /\ user_ips[i].ip = last.before[i].ip
                /\ user_ips[i].last_seen =
                      IF user_ips[i].ip = last.client_ip THEN now
                      ELSE last.before[i].last_seen

\* a known visitor returns later, after another visitor has registered
C18_Witness ==
    /\ RepeatCall /\ Len(user_ips) = 2
    /\ user_ips[1].ip = last.client_ip
    /\ last.before[1].last_seen = 0 /\ user_ips[1].last_seen > 0

-----------------------------------------------------------------------------
(* the request cache during scrape_profile *)

\* C19: every request a scrape_profile call makes, for the profile page as
\* for the API, looks its key (url, client_ip) up in the request cache
\* first, and is not sent when the key holds a live entry.
C19_CacheBeforeRequest ==
    Scraped =>
        \A i \in ReqIds :
            /\ Req(i).use_cache
            /\ (Req(i).cached_before # << >> => ~Req(i).sent)

\* the page is requested although the request cache holds it, live, under
\* the request's key
C19_Witness ==
    /\ Scraped
    /\ \E i \in ReqIds :
          /\ Req(i).url = ProfileUrl(last.username)
          /\ Req(i).cached_before # << >> /\ Req(i).cached_before[1].status_code = 200
          /\ ~Req(i).use_cache /\ Req(i).sent

-----------------------------------------------------------------------------
(* classification of the page *)

Classified == last.op = "_scrape_via_html"

BodySteps == {"extract_json", "parse_html_response", "parse_html_directly"}

ParsingSteps(steps) == { i \in 1..Len(steps) : steps[i] \in BodySteps }

\* C20: _scrape_via_html answers a missing or non-200 response with
\* REQUEST_FAILED before any check of the body; for a 200 response, a body
\* with the private-account marker yields PRIVATE_PROFILE, and a body with
\* the not-available marker and no private marker yields PROFILE_NOT_FOUND,
\* in both cases whatever JSON the body holds and with neither the JSON
\* extraction nor the heuristic parse attempted.
C20_ClassifiedBeforeParsing ==
    Classified =>
        /\ (last.response = NoResponse \/ last.response.status_code # 200)
              => /\ last.yield.result = Err("REQUEST_FAILED")
                 /\ last.yield.steps = << >>
        /\ (last.response.status_code = 200 /\ last.response.text.private)
              => /\ last.yield.result = Err("PRIVATE_PROFILE")
                 /\ ParsingSteps(last.yield.steps) = {}
        /\ (/\ last.response.status_code = 200 /\ ~last.response.text.private
             /\ last.response.text.notavail)
              => /\ last.yield.result = Err("PROFILE_NOT_FOUND")
                 /\ ParsingSteps(last.yield.steps) = {}

\* a page with both markers and a well-formed user object
C20_Witness ==
    /\ Classified /\ last.response.status_code = 200
    /\ last.response.text.private /\ last.response.text.notavail
    /\ last.response.text.json = "user"
    /\ last.yield.result = Err("PRIVATE_PROFILE")

C20_WitnessNotFound ==
    /\ Classified /\ last.response.status_code = 200
    /\ ~last.response.text.private /\ last.response.text.notavail
    /\ last.response.text.json = "user"
    /\ last.yield.result = Err("PROFILE_NOT_FOUND")

C20_WitnessNon200 ==
    /\ Classified /\ last.response.status_code = 404
    /\ last.response.text.private
    /\ last.yield.result = Err("REQUEST_FAILED")

-----------------------------------------------------------------------------
(* the profile schema *)

IdentityFields ==
    {"username", "full_name", "biography", "external_url", "is_private",
     "is_verified", "profile_pic_url"}

StatisticsFields == {"followers", "following", "posts"}

\* C21: every profile result scrape_profile returns, whichever strategy
\* produced it, has an identity with exactly the fields username,
\* full_name, biography, external_url, is_private, is_verified,
\* profile_pic_url, and statistics with followers, following, posts.
C21_UniformSchema ==
    (Scraped /\ ReturnsProfile(last.result)) =>
        /\ DOMAIN last.result.profile.identity = IdentityFields
        /\ DOMAIN last.result.profile.statistics = StatisticsFields

\* the heuristic parse produced the profile, and its identity has no
\* external_url
C21_Witness ==
    /\ Scraped /\ ReturnsProfile(last.result) /\ last.winner = "html_direct"
    /\ DOMAIN last.result.profile.identity = IdentityFields \ {"external_url"}
    /\ DOMAIN last.result.profile.statistics = StatisticsFields

\* the embedded JSON and the API produce the full schema
C21_WitnessJson ==
    /\ Scraped /\ ReturnsProfile(last.result) /\ last.winner \in {"html_json", "api"}
    /\ DOMAIN last.result.profile.identity = IdentityFields

-----------------------------------------------------------------------------
(* post truncation *)

Extracted == last.op = "_extract_posts"

Min(a, b) == IF a < b THEN a ELSE b

PostTypes == {"IMAGE", "VIDEO", "CAROUSEL", "UNKNOWN"}

\* the ids of the edges with a node among the first ten, in source order
FirstTenIds(edges) ==
    SelectSeq([i \in 1..Min(Len(edges), EdgeLimit) |-> IF edges[i].has_node THEN edges[i].id ELSE 0],
              LAMBDA id : id # 0)

\* C22: for a user object with k timeline edges, the extracted posts come
\* from the first 10 edges only, in source order; posts.recent is the first
\* min(5, n) of the n extracted posts and posts.total = n, n <= min(k, 10);
\* every caption has at most 200 characters and every type is one of
\* IMAGE, VIDEO, CAROUSEL, UNKNOWN.
C22_PostTruncation ==
    Extracted =>
        /\ [i \in 1..Len(last.extracted) |-> last.extracted[i].id]
              = FirstTenIds(last.edges)
        /\ last.posts.total = Len(last.extracted)
        /\ last.posts.total <= Min(Len(last.edges), EdgeLimit)
        /\ last.posts.recent
              = SubSeq(last.extracted, 1, Min(RecentLimit, Len(last.extracted)))
        /\ \A i \in 1..Len(last.extracted) :
              /\ Len(last.extracted[i].caption) <= CaptionLimit
              /\ last.extracted[i].type \in PostTypes

\* eleven edges, one of the first ten without a node, captions of 201
\* characters cut to 200
C22_Witness ==
    /\ Extracted /\ Len(last.edges) = 11 /\ ~last.edges[3].has_node
    /\ last.posts.total = 9 /\ Len(last.posts.recent) = 5
    /\ last.posts.recent[3].id = 4
    /\ Len(last.edges[1].captions) > 0 /\ Len(last.edges[1].captions[1]) = 201
    /\ Len(last.posts.recent[1].caption) = 200

-----------------------------------------------------------------------------
(* the user-object lookup *)

Parsed == last.op = "_parse_html_response"

\* a path's key as the claim reads it: ProfilePage[0] is the first item of
\* the list
Item(current, key) ==
    IF current.t = "dict" /\ key \in DOMAIN current.v THEN current.v[key]
    ELSE IF current.t = "list" /\ key = "#0" /\ Len(current.v) > 0 THEN current.v[1]
    ELSE JNone

RECURSIVE Resolve(_, _)
Resolve(current, path) ==
    IF Len(path) = 0 \/ current.t = "none" THEN current
    ELSE Resolve(Item(current, Head(path)), Tail(path))

\* the path resolves to an object with a username field
YieldsUser(json_data, path) ==
    /\ Resolve(json_data, path).t = "dict"
    /\ "username" \in DOMAIN Resolve(json_data, path).v

\* C23: the paths entry_data.ProfilePage[0].graphql.user, graphql.user,
\* user are tried in that order; the user object is the one at the first
\* path that resolves to an object with a username field, and if no path
\* does, the result is USER_DATA_NOT_FOUND and holds no profile.
C23_FirstResolvingPath ==
    Parsed =>
        IF \E i \in 1..Len(Paths) : YieldsUser(last.json_data, Paths[i])
        THEN /\ "profile" \in DOMAIN last.result
             /\ \E i \in 1..Len(Paths) :
                   /\ YieldsUser(last.json_data, Paths[i])
                   /\ \A j \in 1..(i - 1) : ~YieldsUser(last.json_data, Paths[j])
                   /\ last.result.path = Paths[i]
                   /\ last.result.profile.identity.username
                         = Resolve(last.json_data, Paths[i]).v.username
        ELSE last.result = Err("USER_DATA_NOT_FOUND")

\* the document holds a user object at entry_data.ProfilePage[0].graphql.user
\* and nowhere else, and no user object is found
C23_Witness ==
    /\ Parsed /\ DOMAIN last.json_data.v = {"entry_data"}
    /\ YieldsUser(last.json_data, Paths[1])
    /\ last.result = Err("USER_DATA_NOT_FOUND")

\* the user object under graphql.user is preferred to the one under user
C23_WitnessOrder ==
    /\ Parsed /\ DOMAIN last.json_data.v = {"graphql", "user"}
    /\ YieldsUser(last.json_data, Paths[2]) /\ YieldsUser(last.json_data, Paths[3])
    /\ "profile" \in DOMAIN last.result
    /\ last.result.profile.identity.username = JStr(<<"b">>)

\* a string holding the word username is taken for the user object
C23_WitnessString ==
    /\ Parsed /\ DOMAIN last.json_data.v = {"graphql", "user"}
    /\ ~YieldsUser(last.json_data, Paths[2]) /\ YieldsUser(last.json_data, Paths[3])
    /\ last.result = Err("PARSING_ERROR")

-----------------------------------------------------------------------------
(* lookup_user's response code *)

\* the target does not exist: the page came back 200 with the not-available
\* marker, or the API answered 200 without a user
MissingProfileFetched ==
    /\ Fresh
    /\ \/ /\ ~last.reqs[1].raised /\ last.reqs[1].response.status_code = 200
          /\ ~last.reqs[1].response.text.private
          /\ last.reqs[1].response.text.notavail
       \/ /\ Len(last.reqs) = 2 /\ ~last.reqs[2].raised
          /\ last.reqs[2].response.status_code = 200
          /\ last.reqs[2].response.text.json = "nouser"

\* C25: when the scrape fails because the target profile is private,
\* lookup_user answers 403; when it fails because the profile does not
\* exist, 404; for every other failure, 500.
C25_CauseMapsToCode ==
    (Scraped /\ "error" \in DOMAIN last.result) =>
        last.code = IF PrivatePageFetched THEN 403
                    ELSE IF MissingProfileFetched THEN 404
                    ELSE 500

\* the page fetched says the account is private, and the answer is 500
C25_Witness ==
    /\ Scraped /\ PrivatePageFetched /\ "error" \in DOMAIN last.result
    /\ last.code = 500

\* the page fetched says the profile is not available, and the answer is 500
C25_WitnessMissing ==
    /\ Scraped /\ MissingProfileFetched /\ ~PrivatePageFetched
    /\ "error" \in DOMAIN last.result /\ last.code = 500

-----------------------------------------------------------------------------
(* Routing inside one scrape_profile call *)

\* the last step ran scrape_profile, from lookup_user or from test_connection
RanScrapeProfile == last.op \in {"scrape_profile", "test_connection"}

\* C24: within one scrape_profile call made with a client_ip,
\* add_user_ip(client_ip) runs before the first routing decision, so every
\* non-cached request of the call is routed own-ip (user_ip) without
\* get_best_proxy() being consulted; a request of scrape_profile goes
\* pool-proxy only when the call had no client_ip.
C24_RegisteredBeforeRouting ==
    RanScrapeProfile =>
        \A i \in ReqIds :
            /\ Req(i).client_ip = last.client_ip
            /\ (Truthy(last.client_ip) /\ ~Hit(Req(i))) =>
                  /\ Req(i).ip_known
                  /\ Req(i).proxy_type = "user_ip"
                  /\ Req(i).lookups = <<"get_user_ip_proxy">>
            /\ Req(i).proxy_type = "pool_proxy" => ~Truthy(last.client_ip)

\* a call with a client_ip sent a request own-ip while the pool had a
\* candidate to offer
C24_Witness ==
    /\ Scraped /\ Truthy(last.client_ip)
    /\ \E i \in ReqIds :
          /\ Req(i).sent /\ Req(i).best_ip # None
          /\ Req(i).proxy_type = "user_ip"

\* a call without client_ip sent a request through a pool proxy
C24_WitnessPool ==
    /\ Scraped /\ last.client_ip = None
    /\ \E i \in ReqIds : Req(i).sent /\ Req(i).proxy_type = "pool_proxy"

-----------------------------------------------------------------------------
(* The RateLimiter bound *)

Limiting == last.op = "is_rate_limited"

\* the number of entries of a list of times that satisfy a test
CountTimes(times, Test(_)) == Cardinality({ i \in 1..Len(times) : Test(times[i]) })

\* the accepted calls of ip, before the last call, that lie within the
\* window ending at the call
AcceptedInWindow ==
    CountTimes(last.accepted[last.ip], LAMBDA t : now - t < RateWindow)
        - (IF last.limited THEN 0 ELSE 1)

\* C26: a call of is_rate_limited(ip, L, W) is accepted iff fewer than L
\* accepted calls of the same ip lie within the last W seconds; an accepted
\* call is recorded and a rejected one is not; at most L calls of an ip are
\* accepted in any window of W seconds.
C26_RateLimiterBound ==
    /\ Limiting =>
          /\ ~last.limited <=> AcceptedInWindow < RateLimit
          /\ CountTimes(last.requests[last.ip], LAMBDA t : t = now)
                = CountTimes(last.before, LAMBDA t : t = now)
                      + (IF last.limited THEN 0 ELSE 1)
    /\ \A ip \in LimitedIPs : \A s \in 0..MaxClock :
          CountTimes(last.accepted[ip], LAMBDA t : s <= t /\ t < s + RateWindow)
              <= RateLimit

\* a call is rejected with the limit reached inside the window, after an
\* earlier call of the same ip had left the window
C26_Witness ==
    /\ Limiting /\ last.limited
    /\ Len(last.requests[last.ip]) = RateLimit
    /\ Len(last.accepted[last.ip]) > RateLimit

\* a call is accepted again once the window has passed
C26_WitnessAccepted ==
    /\ Limiting /\ ~last.limited
    /\ Len(last.accepted[last.ip]) > RateLimit
    /\ Len(last.before) > Len(Recent(last.before, now, RateWindow))

-----------------------------------------------------------------------------
(* Admin removal *)

RemovalReported == last.op = "remove" /\ last.reply = "Removed admin"

\* C27: whenever /remove <id> sent by the owner reports that the admin was
\* removed, is_admin(id) is false afterwards, also when id had been added
\* more than once; /remove of the owner's own id never removes it.
C27_RemovedIsNoAdmin ==
    /\ RemovalReported => ~is_admin(last.ADMINS, last.id)
    /\ is_admin(last.ADMINS, OWNER_ID)

\* a removal is reported for an id that is still an admin
C27_Witness ==
    /\ RemovalReported
    /\ is_admin(last.ADMINS, last.id)

\* the owner's /remove of the owner's id is refused
C27_WitnessOwner ==
    /\ last.op = "remove" /\ last.reply = "Cannot remove owner."
    /\ is_admin(last.ADMINS, OWNER_ID)

=============================================================================
